---- MODULE Spec2Model ----
(***************************************************************************)
(* Board simulation and piece state machine of deitrix/tetris: the        *)
(* scoring variant of the game (src/main.go, second program), with the    *)
(* piece catalog and rotation table of src/piece/piece.go.                *)
(*                                                                         *)
(* One step of the model is one call of Game.Update: the whole tick, with *)
(* every call it makes (holdPiece, fall, commitPiece, loadNextPiece,      *)
(* clearLines, removeRow).  The keys sampled in the tick and the pieces   *)
(* piece.Rand() returns are the inputs of the step.                       *)
(*                                                                         *)
(* The time-based variant of the game (src/main.go, first program) is    *)
(* modelled beside it for its soft-drop pause: FastFallingPaused is its   *)
(* field, DownHeld is the state of the down key at the tick before (what  *)
(* IsKeyJustReleased compares with) and Since is the time since           *)
(* LastAutoFallTime as the last tick saw it.  The scoring variant leaves  *)
(* the three unchanged.  Rested is a history variable of the section on   *)
(* the whole grace period: the number of ticks in which fall ran on the   *)
(* falling piece while it could not move down, counted from the tick the  *)
(* piece became the falling piece.                                        *)
(*                                                                         *)
(* The functions of the program that read no game state (getFallSpeed,   *)
(* Piece.Rotate) are also called on their own, on arguments drawn from    *)
(* bounded sets: Input is the argument, Output the value after Calls      *)
(* calls.                                                                  *)
(*                                                                         *)
(* Rendering state (Opacity, OpacityDirection, ScreenWidth, ScreenHeight, *)
(* Color) is not modelled: no operation of the simulation reads it.       *)
(***************************************************************************)
EXTENDS Integers, Sequences, FiniteSets, TLC

VARIABLES Cells, Queue, DidHoldPiece, HoldPiece, FallingPiece, FastFalling,
          TicksSinceFall, TicksSinceMove, LastChanceTicks,
          Level, Score, LinesCleared, ShowDebug, Panicked, Locked,
          Input, Output, Calls,
          FastFallingPaused, DownHeld, Since,
          Rested

vars == <<Cells, Queue, DidHoldPiece, HoldPiece, FallingPiece, FastFalling,
          TicksSinceFall, TicksSinceMove, LastChanceTicks,
          Level, Score, LinesCleared, ShowDebug, Panicked, Locked,
          Input, Output, Calls,
          FastFallingPaused, DownHeld, Since, Rested>>

(***************************************************************************)
(* Bounds of the model.  The program plays on a 10 x 20 board; the model  *)
(* keeps every formula of the program in terms of boardWidth and          *)
(* boardHeight and checks it on a narrower and lower board.               *)
(***************************************************************************)
\* width of the board, not including the walls (the program: 10)
boardWidth == 4
\* height of the board, not including the floor (the program: 20)
boardHeight == 4
\* pieces that may be locked before the exploration stops locking
MaxLocked == 1
\* cap of the tick counters: a tick that would push TicksSinceFall,
\* TicksSinceMove or LastChanceTicks beyond it is not explored
MaxTicks == 1

(***************************************************************************)
(* Program constants.                                                      *)
(***************************************************************************)
floorThickness == 1
wallThickness == 1
queueSize == 3
boardWidthWithWalls == boardWidth + wallThickness * 2
boardHeightWithFloor == boardHeight + floorThickness
cellCount == boardWidthWithWalls * boardHeightWithFloor
\* the level beyond which Level does not grow
maxLevel == 29
\* lines per level
linesPerLevel == 10
\* grace period: ticks without a move, and ticks in total
graceMoveTicks == 30
graceTotalTicks == 120

\* an empty board cell (a nil *Cell)
Nil == "nil"
\* the tint of a border cell (cell.Wall)
Wall == "Wall"

Min(a, b) == IF a < b THEN a ELSE b

\* a Go slice literal as a function on 0 .. len-1
Slice(s) == [i \in 0 .. Len(s) - 1 |-> s[i + 1]]

(***************************************************************************)
(* The piece catalog.                                                      *)
(***************************************************************************)
NewPiece(mask, w, h, tint) ==
    [Mask |-> Slice(mask), Width |-> w, Height |-> h, Tint |-> tint,
     X |-> 0, Y |-> 0, Rotation |-> 0]

I == NewPiece(<<0, 0, 0, 0,
                0, 0, 0, 0,
                1, 1, 1, 1,
                0, 0, 0, 0>>, 4, 4, "I")

J == NewPiece(<<1, 0, 0,
                1, 1, 1,
                0, 0, 0>>, 3, 3, "J")

L == NewPiece(<<0, 0, 1,
                1, 1, 1,
                0, 0, 0>>, 3, 3, "L")

O == NewPiece(<<1, 1,
                1, 1>>, 2, 2, "O")

S == NewPiece(<<0, 1, 1,
                1, 1, 0,
                0, 0, 0>>, 3, 3, "S")

T == NewPiece(<<0, 1, 0,
                1, 1, 1,
                0, 0, 0>>, 3, 3, "T")

Z == NewPiece(<<1, 1, 0,
                0, 1, 1,
                0, 0, 0>>, 3, 3, "Z")

allPieces == Slice(<<I, J, L, O, S, T, Z>>)

Tints == {allPieces[n].Tint : n \in DOMAIN allPieces}

\* piece.Rand(), n being the value rand.Intn returned
Rand(n) == allPieces[n]

rotateIndices ==
    [n \in {9, 16} |->
        IF n = 9
        THEN Slice(<<2, 5, 8,
                     1, 4, 7,
                     0, 3, 6>>)
        ELSE Slice(<<3, 7, 11, 15,
                     2, 6, 10, 14,
                     1, 5, 9, 13,
                     0, 4, 8, 12>>)]

\* the mask loop of Piece.Rotate reading the table backwards
RotateMaskBack(mask) ==
    LET n == Cardinality(DOMAIN mask)
        tbl == rotateIndices[n]
    IN  [d \in DOMAIN mask |-> mask[tbl[d]]]

\* newMask[rotateIndices[len][i]] = Mask[i]
RotateMask(mask) ==
    LET n == Cardinality(DOMAIN mask)
        tbl == rotateIndices[n]
    IN  [d \in DOMAIN mask |-> mask[CHOOSE i \in DOMAIN mask : tbl[i] = d]]

\* whether Piece.Rotate ends in a run-time panic: rotateIndices has no entry
\* for the length of the mask, the map returns a nil slice and the first
\* iteration of the loop indexes it
RotatePanics(p) ==
    /\ p.Width >= 3
    /\ DOMAIN p.Mask # {}
    /\ Cardinality(DOMAIN p.Mask) \notin DOMAIN rotateIndices

\* Piece.Rotate; the orientation counter is kept modulo 4
Rotate(p) ==
    IF p.Width < 3
    THEN p
    ELSE [p EXCEPT !.Mask = RotateMask(p.Mask),
                   !.Rotation = (p.Rotation + 1) % 4]

RECURSIVE RotateTimes(_, _)
RotateTimes(p, n) == IF n = 0 THEN p ELSE RotateTimes(Rotate(p), n - 1)

\* Piece.ResetRotation: back to the spawn orientation
ResetRotation(p) ==
    [RotateTimes(p, (4 - p.Rotation) % 4) EXCEPT !.Rotation = 0]

\* the mask indices of the occupied cells of a piece
Occupied(p) == {i \in DOMAIN p.Mask : p.Mask[i] # 0}
MaskX(p, i) == p.X + (i % p.Width)
MaskY(p, i) == p.Y + (i \div p.Width)

MinOf(s) == CHOOSE a \in s : \A b \in s : a <= b
MaxOf(s) == CHOOSE a \in s : \A b \in s : a >= b

\* minX, minY, maxX, maxY of TrimSpace after its first loop (Width not 0)
TrimBox(p) ==
    LET xs == {i % p.Width : i \in Occupied(p)}
        ys == {i \div p.Width : i \in Occupied(p)}
    IN  [minX |-> MinOf(xs \cup {100}), minY |-> MinOf(ys \cup {100}),
         maxX |-> MaxOf(xs \cup {0}), maxY |-> MaxOf(ys \cup {0})]

\* the index of p.Mask the second loop of TrimSpace reads for newMask[i]
TrimIndex(p, i) ==
    LET b == TrimBox(p)
        newWidth == b.maxX - b.minX + 1
    IN  ((i \div newWidth) + b.minY) * p.Width + (i % newWidth) + b.minX

\* whether TrimSpace ends in a run-time panic: a division by Width = 0 at the
\* first occupied cell, or an index outside the mask in the second loop (with
\* no occupied cell the box is 100 .. 0 and the first index read is
\* 100 * Width + 100)
TrimPanics(p) ==
    IF Occupied(p) = {}
    THEN 100 * p.Width + 100 \notin DOMAIN p.Mask
    ELSE \/ p.Width = 0
         \/ LET b == TrimBox(p)
            IN  \E i \in 0 .. (b.maxX - b.minX + 1) * (b.maxY - b.minY + 1) - 1 :
                    TrimIndex(p, i) \notin DOMAIN p.Mask

\* TrimSpace leaving the empty columns in
TrimSpaceRows(p) ==
    LET b == TrimBox(p)
    IN  [p EXCEPT !.Mask = [i \in 0 .. p.Width * (b.maxY - b.minY + 1) - 1 |->
                               p.Mask[i + b.minY * p.Width]],
                  !.Height = b.maxY - b.minY + 1]

\* TrimSpace with maxY - minY rows when there are more than one
TrimSpaceShort(p) ==
    LET b == TrimBox(p)
        newWidth == b.maxX - b.minX + 1
        newHeight == IF b.maxY > b.minY THEN b.maxY - b.minY ELSE 1
    IN  [p EXCEPT !.Mask = [i \in 0 .. newWidth * newHeight - 1 |-> p.Mask[TrimIndex(p, i)]],
                  !.Width = newWidth,
                  !.Height = newHeight]

\* Piece.TrimSpace, where it does not panic
TrimSpace(p) ==
    LET b == TrimBox(p)
        newWidth == b.maxX - b.minX + 1
        newLen == newWidth * (b.maxY - b.minY + 1)
    IN  [p EXCEPT !.Mask = [i \in 0 .. newLen - 1 |-> p.Mask[TrimIndex(p, i)]],
                  !.Width = newWidth,
                  !.Height = b.maxY - b.minY + 1]

\* the column a piece is given when it becomes the falling piece
SpawnX(p) == (boardWidthWithWalls \div 2) - (p.Width \div 2)

(***************************************************************************)
(* The board and the collision checks.  The checks do not test the bounds *)
(* of Cells: an index outside 0 .. cellCount-1 is a Go run-time panic,    *)
(* which ends the program.  A check runs over the mask in index order and *)
(* returns at the first occupied board cell, so what it reads after that  *)
(* cell is never read.                                                     *)
(***************************************************************************)
Free == "free"
Hit == "hit"
Panic == "panic"

InBoard(idx) == idx \in 0 .. cellCount - 1

\* the board index the checks compute for mask cell i moved by (dx, dy)
CellIndex(p, i, dx, dy) == (MaskY(p, i) + dy) * boardWidthWithWalls + MaskX(p, i) + dx

\* the loop shared by canMoveLeft, canMoveRight, canMoveDown and canRotate
Probe(cells, p, dx, dy) ==
    LET stop == {i \in Occupied(p) :
                    IF InBoard(CellIndex(p, i, dx, dy))
                    THEN cells[CellIndex(p, i, dx, dy)] # Nil
                    ELSE TRUE}
    IN  IF stop = {}
        THEN Free
        ELSE LET first == CHOOSE i \in stop : \A j \in stop : i <= j
             IN  IF InBoard(CellIndex(p, first, dx, dy)) THEN Hit ELSE Panic

canMoveLeft(g) == Probe(g.Cells, g.FallingPiece, -1, 0)
canMoveRight(g) == Probe(g.Cells, g.FallingPiece, 1, 0)
\* canMoveDown testing the first occupied cell of the mask only
canMoveDownTop(g, p) ==
    Probe(g.Cells,
          [p EXCEPT !.Mask = [i \in DOMAIN p.Mask |->
                                IF \A j \in Occupied(p) : i <= j THEN p.Mask[i] ELSE 0]],
          0, 1)

canMoveDown(g, p) == Probe(g.Cells, p, 0, 1)

\* canRotate testing the mask as it is, not rotated
canRotateInPlace(g) ==
    IF Cardinality(DOMAIN g.FallingPiece.Mask) = 4
    THEN Hit
    ELSE Probe(g.Cells, g.FallingPiece, 0, 0)

canRotate(g) ==
    IF Cardinality(DOMAIN g.FallingPiece.Mask) = 4
    THEN Hit
    ELSE Probe(g.Cells, Rotate(g.FallingPiece), 0, 0)

\* the descent loop of ghostPiece, earlyCommitScore and commitPiece:
\* the piece where it stops, the rows it went down, and whether a read panicked
RECURSIVE Descend(_, _, _)
Descend(g, p, n) ==
    LET st == canMoveDown(g, p)
    IN  IF st = Free
        THEN Descend(g, [p EXCEPT !.Y = @ + 1], n + 1)
        ELSE [piece |-> p, rows |-> n, panic |-> (st = Panic)]

ghostPiece(g) == Descend(g, g.FallingPiece, 0)

\* earlyCommitScore with one point for a row
earlyCommitScoreSingle(g) == Descend(g, g.FallingPiece, 0).rows

earlyCommitScore(g) == Descend(g, g.FallingPiece, 0).rows * 2

lineScore(n) ==
    CASE n = 1 -> 40
      [] n = 2 -> 100
      [] n = 3 -> 300
      [] n = 4 -> 1200
      [] OTHER -> 0

\* getLineScore without the "+ 1" of the level
getLineScoreByLevel(level, n) == lineScore(n) * level

getLineScore(level, n) == lineScore(n) * (level + 1)

fallSpeedKeys == (0 .. 14) \cup {16, 18, 20, 22, 29}

fallSpeed(level) ==
    CASE level = 0 -> 53 [] level = 1 -> 49 [] level = 2 -> 45
      [] level = 3 -> 41 [] level = 4 -> 37 [] level = 5 -> 33
      [] level = 6 -> 28 [] level = 7 -> 22 [] level = 8 -> 17
      [] level = 9 -> 11 [] level = 10 -> 10 [] level = 11 -> 9
      [] level = 12 -> 8 [] level = 13 -> 7 [] level = 14 -> 6
      [] level = 16 -> 5 [] level = 18 -> 4 [] level = 20 -> 3
      [] level = 22 -> 2 [] level = 29 -> 1

\* getFallSpeed falling forward to the next defined level
RECURSIVE getFallSpeedNext(_)
getFallSpeedNext(level) ==
    IF level > 29
    THEN 1
    ELSE IF level \in fallSpeedKeys
         THEN fallSpeed(level)
         ELSE getFallSpeedNext(level + 1)

RECURSIVE getFallSpeed(_)
getFallSpeed(level) ==
    IF level > 29
    THEN 1
    ELSE IF level \in fallSpeedKeys
         THEN fallSpeed(level)
         ELSE getFallSpeed(level - 1)

PlayableX == wallThickness .. boardWidthWithWalls - wallThickness - 1

IsBorder(x, y) ==
    \/ x < wallThickness
    \/ x >= boardWidthWithWalls - wallThickness
    \/ y >= boardHeightWithFloor - floorThickness

\* placeBorderCells without the floor rows
placeBorderCellsNoFloor(cells) ==
    [c \in DOMAIN cells |->
        IF \/ c % boardWidthWithWalls < wallThickness
           \/ c % boardWidthWithWalls >= boardWidthWithWalls - wallThickness
        THEN Wall
        ELSE cells[c]]

placeBorderCells(cells) ==
    [c \in DOMAIN cells |->
        IF IsBorder(c % boardWidthWithWalls, c \div boardWidthWithWalls)
        THEN Wall
        ELSE cells[c]]

\* the three pieces fillQueue draws
fillQueue(d) == [i \in 0 .. queueSize - 1 |-> Rand(d[i])]

\* loadNextPiece taking the second piece of the queue
loadNextPieceSkips(g, n) ==
    LET p == g.Queue[1]
    IN  [g EXCEPT !.FallingPiece = [p EXCEPT !.X = SpawnX(p), !.Y = 0],
                  !.Queue = [i \in 0 .. queueSize - 1 |->
                                IF i < queueSize - 1 THEN g.Queue[i + 1] ELSE Rand(n)]]

\* n is the piece piece.Rand() draws for the back of the queue
loadNextPiece(g, n) ==
    LET p == g.Queue[0]
    IN  [g EXCEPT !.FallingPiece = [p EXCEPT !.X = SpawnX(p), !.Y = 0],
                  !.Queue = [i \in 0 .. queueSize - 1 |->
                                IF i < queueSize - 1 THEN g.Queue[i + 1] ELSE Rand(n)]]

RowFull(cells, y) == \A x \in PlayableX : cells[y * boardWidthWithWalls + x] # Nil

\* for y := row; y > 0; y-- : row y takes the playable cells of row y-1
RECURSIVE removeRowFrom(_, _)
removeRowFrom(cells, y) ==
    IF y > 0
    THEN removeRowFrom(
            [c \in DOMAIN cells |->
                IF c \div boardWidthWithWalls = y /\ c % boardWidthWithWalls \in PlayableX
                THEN cells[c - boardWidthWithWalls]
                ELSE cells[c]],
            y - 1)
    ELSE cells

\* removeRow starting one row too high
removeRowAbove(cells, row) == removeRowFrom(cells, row - 1)

removeRow(cells, row) == removeRowFrom(cells, row)

\* the scan of clearLines running over the floor rows too
RECURSIVE scanLinesToFloor(_, _, _)
scanLinesToFloor(cells, y, lines) ==
    IF y < boardHeightWithFloor
    THEN IF RowFull(cells, y)
         THEN scanLinesToFloor(removeRowFrom(cells, y), y + 1, lines + 1)
         ELSE scanLinesToFloor(cells, y + 1, lines)
    ELSE [cells |-> cells, lines |-> lines]

\* the scan of clearLines from row y on: the board and the lines counted
RECURSIVE scanLines(_, _, _)
scanLines(cells, y, lines) ==
    IF y < boardHeight
    THEN IF RowFull(cells, y)
         THEN scanLines(removeRow(cells, y), y + 1, lines + 1)
         ELSE scanLines(cells, y + 1, lines)
    ELSE [cells |-> cells, lines |-> lines]

\* clearLines without the cap of the level
clearLinesNoCap(g) ==
    LET r == scanLines(g.Cells, 0, 0)
    IN  IF r.lines > 0
        THEN [g EXCEPT !.Cells = r.cells,
                       !.Score = @ + getLineScore(g.Level, r.lines),
                       !.LinesCleared = @ + r.lines,
                       !.Level = (g.LinesCleared + r.lines) \div linesPerLevel]
        ELSE [g EXCEPT !.Cells = r.cells]

clearLines(g) ==
    LET r == scanLines(g.Cells, 0, 0)
    IN  IF r.lines > 0
        THEN [g EXCEPT !.Cells = r.cells,
                       !.Score = @ + getLineScore(g.Level, r.lines),
                       !.LinesCleared = @ + r.lines,
                       !.Level = Min((g.LinesCleared + r.lines) \div linesPerLevel, maxLevel)]
        ELSE [g EXCEPT !.Cells = r.cells]

\* the cells commitPiece writes for piece p
lockCells(cells, p) ==
    [c \in DOMAIN cells |->
        IF \E i \in Occupied(p) : CellIndex(p, i, 0, 0) = c
        THEN p.Tint
        ELSE cells[c]]

\* commitPiece without the descent: the piece is locked where it is
commitPieceInPlace(g, n) ==
    LET p == g.FallingPiece
    IN  IF \E i \in Occupied(p) : ~InBoard(CellIndex(p, i, 0, 0))
        THEN [g EXCEPT !.Panicked = TRUE]
        ELSE LET g1 == [g EXCEPT !.Cells = lockCells(g.Cells, p)]
                 g2 == clearLines(loadNextPiece(g1, n))
             IN  [g2 EXCEPT !.DidHoldPiece = FALSE,
                            !.LastChanceTicks = 0,
                            !.Locked = @ + 1]

\* commitPiece that leaves DidHoldPiece as it is
commitPieceKeepsHold(g, n) ==
    LET d == Descend(g, g.FallingPiece, 0)
        p == d.piece
    IN  IF d.panic \/ \E i \in Occupied(p) : ~InBoard(CellIndex(p, i, 0, 0))
        THEN [g EXCEPT !.FallingPiece = p, !.Panicked = TRUE]
        ELSE LET g1 == [g EXCEPT !.FallingPiece = p, !.Cells = lockCells(g.Cells, p)]
                 g2 == clearLines(loadNextPiece(g1, n))
             IN  [g2 EXCEPT !.LastChanceTicks = 0,
                            !.Locked = @ + 1]

\* commitPiece that empties the hold slot
commitPieceEmptiesHold(g, n) ==
    LET d == Descend(g, g.FallingPiece, 0)
        p == d.piece
    IN  IF d.panic \/ \E i \in Occupied(p) : ~InBoard(CellIndex(p, i, 0, 0))
        THEN [g EXCEPT !.FallingPiece = p, !.Panicked = TRUE]
        ELSE LET g1 == [g EXCEPT !.FallingPiece = p, !.Cells = lockCells(g.Cells, p)]
                 g2 == clearLines(loadNextPiece(g1, n))
             IN  [g2 EXCEPT !.DidHoldPiece = FALSE,
                            !.HoldPiece = <<>>,
                            !.LastChanceTicks = 0,
                            !.Locked = @ + 1]

commitPiece(g, n) ==
    LET d == Descend(g, g.FallingPiece, 0)
        p == d.piece
    IN  IF d.panic \/ \E i \in Occupied(p) : ~InBoard(CellIndex(p, i, 0, 0))
        THEN [g EXCEPT !.FallingPiece = p, !.Panicked = TRUE]
        ELSE LET g1 == [g EXCEPT !.FallingPiece = p, !.Cells = lockCells(g.Cells, p)]
                 g2 == clearLines(loadNextPiece(g1, n))
             IN  [g2 EXCEPT !.DidHoldPiece = FALSE,
                            !.LastChanceTicks = 0,
                            !.Locked = @ + 1]

\* holdPiece that does not set DidHoldPiece
holdPieceNoFlag(g, n) ==
    LET g1 == IF g.HoldPiece = <<>>
              THEN loadNextPiece([g EXCEPT !.HoldPiece = <<g.FallingPiece>>], n)
              ELSE [g EXCEPT !.FallingPiece = g.HoldPiece[1],
                             !.HoldPiece = <<g.FallingPiece>>]
        f == ResetRotation(g1.FallingPiece)
        h == ResetRotation(g1.HoldPiece[1])
    IN  [g1 EXCEPT !.FallingPiece = [f EXCEPT !.X = SpawnX(f), !.Y = 0],
                   !.HoldPiece = <<[h EXCEPT !.X = 0, !.Y = 0]>>]

\* holdPiece that does not move the piece it takes out of the slot to the
\* spawn position
holdPieceNoSpawn(g, n) ==
    LET g1 == IF g.HoldPiece = <<>>
              THEN loadNextPiece([g EXCEPT !.HoldPiece = <<g.FallingPiece>>], n)
              ELSE [g EXCEPT !.FallingPiece = g.HoldPiece[1],
                             !.HoldPiece = <<g.FallingPiece>>]
        f == ResetRotation(g1.FallingPiece)
        h == ResetRotation(g1.HoldPiece[1])
    IN  [g1 EXCEPT !.FallingPiece = f,
                   !.HoldPiece = <<[h EXCEPT !.X = 0, !.Y = 0]>>,
                   !.DidHoldPiece = TRUE]

holdPiece(g, n) ==
    LET g1 == IF g.HoldPiece = <<>>
              THEN loadNextPiece([g EXCEPT !.HoldPiece = <<g.FallingPiece>>], n)
              ELSE [g EXCEPT !.FallingPiece = g.HoldPiece[1],
                             !.HoldPiece = <<g.FallingPiece>>]
        f == ResetRotation(g1.FallingPiece)
        h == ResetRotation(g1.HoldPiece[1])
    IN  [g1 EXCEPT !.FallingPiece = [f EXCEPT !.X = SpawnX(f), !.Y = 0],
                   !.HoldPiece = <<[h EXCEPT !.X = 0, !.Y = 0]>>,
                   !.DidHoldPiece = TRUE]

\* fall whose gravity step writes the piece into the board where it was
fallPaints(g, minTicksSinceFall, n) ==
    LET st == canMoveDown(g, g.FallingPiece)
    IN  IF st = Panic
        THEN [g EXCEPT !.Panicked = TRUE]
        ELSE IF st = Free
        THEN IF g.TicksSinceFall >= minTicksSinceFall
             THEN [g EXCEPT !.FallingPiece.Y = @ + 1,
                            !.Cells = lockCells(g.Cells, g.FallingPiece),
                            !.Score = IF g.FastFalling THEN @ + 1 ELSE @,
                            !.TicksSinceFall = 0,
                            !.TicksSinceMove = 0]
             ELSE [g EXCEPT !.TicksSinceFall = @ + 1]
        ELSE IF g.TicksSinceMove >= graceMoveTicks \/ g.LastChanceTicks >= graceTotalTicks
        THEN LET g1 == commitPiece(g, n)
             IN  IF g1.Panicked THEN g1 ELSE [g1 EXCEPT !.TicksSinceFall = 0]
        ELSE [g EXCEPT !.LastChanceTicks = @ + 1]

\* fall that does not count the ticks of a resting piece
fallStill(g, minTicksSinceFall, n) ==
    LET st == canMoveDown(g, g.FallingPiece)
    IN  IF st = Panic
        THEN [g EXCEPT !.Panicked = TRUE]
        ELSE IF st = Free
        THEN IF g.TicksSinceFall >= minTicksSinceFall
             THEN [g EXCEPT !.FallingPiece.Y = @ + 1,
                            !.Score = IF g.FastFalling THEN @ + 1 ELSE @,
                            !.TicksSinceFall = 0,
                            !.TicksSinceMove = 0]
             ELSE [g EXCEPT !.TicksSinceFall = @ + 1]
        ELSE IF g.TicksSinceMove >= graceMoveTicks \/ g.LastChanceTicks >= graceTotalTicks
        THEN LET g1 == commitPiece(g, n)
             IN  IF g1.Panicked THEN g1 ELSE [g1 EXCEPT !.TicksSinceFall = 0]
        ELSE g

\* fall that locks a resting piece by the move timer alone
fallMoveOnly(g, minTicksSinceFall, n) ==
    LET st == canMoveDown(g, g.FallingPiece)
    IN  IF st = Panic
        THEN [g EXCEPT !.Panicked = TRUE]
        ELSE IF st = Free
        THEN IF g.TicksSinceFall >= minTicksSinceFall
             THEN [g EXCEPT !.FallingPiece.Y = @ + 1,
                            !.Score = IF g.FastFalling THEN @ + 1 ELSE @,
                            !.TicksSinceFall = 0,
                            !.TicksSinceMove = 0]
             ELSE [g EXCEPT !.TicksSinceFall = @ + 1]
        ELSE IF g.TicksSinceMove >= graceMoveTicks
        THEN LET g1 == commitPiece(g, n)
             IN  IF g1.Panicked THEN g1 ELSE [g1 EXCEPT !.TicksSinceFall = 0]
        ELSE [g EXCEPT !.LastChanceTicks = @ + 1]

\* fall that locks only after the thresholds are passed
fallLate(g, minTicksSinceFall, n) ==
    LET st == canMoveDown(g, g.FallingPiece)
    IN  IF st = Panic
        THEN [g EXCEPT !.Panicked = TRUE]
        ELSE IF st = Free
        THEN IF g.TicksSinceFall >= minTicksSinceFall
             THEN [g EXCEPT !.FallingPiece.Y = @ + 1,
                            !.Score = IF g.FastFalling THEN @ + 1 ELSE @,
                            !.TicksSinceFall = 0,
                            !.TicksSinceMove = 0]
             ELSE [g EXCEPT !.TicksSinceFall = @ + 1]
        ELSE IF g.TicksSinceMove > graceMoveTicks \/ g.LastChanceTicks > graceTotalTicks
        THEN LET g1 == commitPiece(g, n)
             IN  IF g1.Panicked THEN g1 ELSE [g1 EXCEPT !.TicksSinceFall = 0]
        ELSE [g EXCEPT !.LastChanceTicks = @ + 1]

fall(g, minTicksSinceFall, n) ==
    LET st == canMoveDown(g, g.FallingPiece)
    IN  IF st = Panic
        THEN [g EXCEPT !.Panicked = TRUE]
        ELSE IF st = Free
        THEN IF g.TicksSinceFall >= minTicksSinceFall
             THEN [g EXCEPT !.FallingPiece.Y = @ + 1,
                            !.Score = IF g.FastFalling THEN @ + 1 ELSE @,
                            !.TicksSinceFall = 0,
                            !.TicksSinceMove = 0]
             ELSE [g EXCEPT !.TicksSinceFall = @ + 1]
        ELSE IF g.TicksSinceMove >= graceMoveTicks \/ g.LastChanceTicks >= graceTotalTicks
        THEN LET g1 == commitPiece(g, n)
             IN  IF g1.Panicked THEN g1 ELSE [g1 EXCEPT !.TicksSinceFall = 0]
        ELSE [g EXCEPT !.LastChanceTicks = @ + 1]

\* the game NewGame builds; d are the four pieces piece.Rand() draws
NewGame(d) ==
    loadNextPiece(
        [Cells |-> placeBorderCells([c \in 0 .. cellCount - 1 |-> Nil]),
         Queue |-> fillQueue(d),
         DidHoldPiece |-> FALSE,
         HoldPiece |-> <<>>,
         FallingPiece |-> NewPiece(<<>>, 0, 0, Nil),
         FastFalling |-> FALSE,
         TicksSinceFall |-> 0,
         TicksSinceMove |-> 0,
         LastChanceTicks |-> 0,
         Level |-> 0,
         Score |-> 0,
         LinesCleared |-> 0,
         ShowDebug |-> FALSE,
         Panicked |-> FALSE,
         Locked |-> 0],
        d[queueSize])

\* Locked counts the pieces locked since the exploration started
\* Reset carrying the score over to the new game
ResetKeepsScore(g, d) == [NewGame(d) EXCEPT !.Locked = g.Locked, !.Score = g.Score]

Reset(g, d) == [NewGame(d) EXCEPT !.Locked = g.Locked]

(***************************************************************************)
(* The keys of one tick: r, i, space, c and up are IsKeyJustPressed of    *)
(* that key, left and right are "just pressed or held for more than 10    *)
(* ticks", down is IsKeyPressed.                                           *)
(***************************************************************************)
moveLeft(m, k) ==
    IF m.g.Panicked \/ ~k.left
    THEN m
    ELSE LET st == canMoveLeft(m.g)
         IN  IF st = Panic THEN [m EXCEPT !.g.Panicked = TRUE]
             ELSE IF st = Free
             THEN [m EXCEPT !.g.FallingPiece.X = @ - 1, !.didMove = TRUE]
             ELSE m

moveRight(m, k) ==
    IF m.g.Panicked \/ ~k.right
    THEN m
    ELSE LET st == canMoveRight(m.g)
         IN  IF st = Panic THEN [m EXCEPT !.g.Panicked = TRUE]
             ELSE IF st = Free
             THEN [m EXCEPT !.g.FallingPiece.X = @ + 1, !.didMove = TRUE]
             ELSE m

rotate(m, k) ==
    IF m.g.Panicked \/ ~k.up
    THEN m
    ELSE LET st == canRotate(m.g)
         IN  IF st = Panic THEN [m EXCEPT !.g.Panicked = TRUE]
             ELSE IF st = Free
             THEN [m EXCEPT !.g.FallingPiece = Rotate(@), !.didMove = TRUE]
             ELSE m

softDrop(m, k) ==
    IF m.g.Panicked
    THEN m
    ELSE IF k.down
    THEN LET st == canMoveDown(m.g, m.g.FallingPiece)
         IN  IF st = Panic THEN [m EXCEPT !.g.Panicked = TRUE]
             ELSE [m EXCEPT !.g.FastFalling = TRUE,
                            !.didMove = (@ \/ st = Free)]
    ELSE [m EXCEPT !.g.FastFalling = FALSE]

\* the part of Update after the keys that return early
play(g, k, n) ==
    LET m == softDrop(rotate(moveRight(moveLeft([g |-> g, didMove |-> FALSE], k), k), k), k)
        minTicksSinceFall == IF k.down THEN 1 ELSE getFallSpeed(g.Level)
    IN  IF m.g.Panicked
        THEN m.g
        ELSE fall([m.g EXCEPT !.TicksSinceMove = IF m.didMove THEN 0 ELSE @ + 1],
                  minTicksSinceFall, n)

\* Update serving the hold before the hard drop
UpdateHoldFirst(g, k, d) ==
    IF k.r
    THEN Reset(g, d)
    ELSE IF k.i
    THEN [g EXCEPT !.ShowDebug = ~@]
    ELSE IF k.c /\ ~g.DidHoldPiece
    THEN holdPiece(g, d[0])
    ELSE IF k.space
    THEN LET e == Descend(g, g.FallingPiece, 0)
         IN  IF e.panic
             THEN [g EXCEPT !.Panicked = TRUE]
             ELSE commitPiece([g EXCEPT !.Score = @ + earlyCommitScore(g)], d[0])
    ELSE play(g, k, d[0])

\* Update that does not test DidHoldPiece
UpdateHoldAlways(g, k, d) ==
    IF k.r
    THEN Reset(g, d)
    ELSE IF k.i
    THEN [g EXCEPT !.ShowDebug = ~@]
    ELSE IF k.space
    THEN LET e == Descend(g, g.FallingPiece, 0)
         IN  IF e.panic
             THEN [g EXCEPT !.Panicked = TRUE]
             ELSE commitPiece([g EXCEPT !.Score = @ + earlyCommitScore(g)], d[0])
    ELSE IF k.c
    THEN holdPiece(g, d[0])
    ELSE play(g, k, d[0])

\* d are the pieces piece.Rand() draws in this tick, in the order drawn
Update(g, k, d) ==
    IF k.r
    THEN Reset(g, d)
    ELSE IF k.i
    THEN [g EXCEPT !.ShowDebug = ~@]
    ELSE IF k.space
    THEN LET e == Descend(g, g.FallingPiece, 0)
         IN  IF e.panic
             THEN [g EXCEPT !.Panicked = TRUE]
             ELSE commitPiece([g EXCEPT !.Score = @ + earlyCommitScore(g)], d[0])
    ELSE IF k.c /\ ~g.DidHoldPiece
    THEN holdPiece(g, d[0])
    ELSE play(g, k, d[0])

(***************************************************************************)
(* The state machine.                                                      *)
(***************************************************************************)
Game ==
    [Cells |-> Cells, Queue |-> Queue, DidHoldPiece |-> DidHoldPiece,
     HoldPiece |-> HoldPiece, FallingPiece |-> FallingPiece,
     FastFalling |-> FastFalling, TicksSinceFall |-> TicksSinceFall,
     TicksSinceMove |-> TicksSinceMove, LastChanceTicks |-> LastChanceTicks,
     Level |-> Level, Score |-> Score, LinesCleared |-> LinesCleared,
     ShowDebug |-> ShowDebug, Panicked |-> Panicked, Locked |-> Locked]

Writes(g) ==
    /\ Cells' = g.Cells
    /\ Queue' = g.Queue
    /\ DidHoldPiece' = g.DidHoldPiece
    /\ HoldPiece' = g.HoldPiece
    /\ FallingPiece' = g.FallingPiece
    /\ FastFalling' = g.FastFalling
    /\ TicksSinceFall' = g.TicksSinceFall
    /\ TicksSinceMove' = g.TicksSinceMove
    /\ LastChanceTicks' = g.LastChanceTicks
    /\ Level' = g.Level
    /\ Score' = g.Score
    /\ LinesCleared' = g.LinesCleared
    /\ ShowDebug' = g.ShowDebug
    /\ Panicked' = g.Panicked
    /\ UNCHANGED <<Input, Output, Calls>>
    /\ UNCHANGED <<FastFallingPaused, DownHeld, Since>>
    /\ Locked' = g.Locked

Becomes(g) == Writes(g) /\ UNCHANGED Rested

Holds(g) ==
    /\ Cells = g.Cells
    /\ Queue = g.Queue
    /\ DidHoldPiece = g.DidHoldPiece
    /\ HoldPiece = g.HoldPiece
    /\ FallingPiece = g.FallingPiece
    /\ FastFalling = g.FastFalling
    /\ TicksSinceFall = g.TicksSinceFall
    /\ TicksSinceMove = g.TicksSinceMove
    /\ LastChanceTicks = g.LastChanceTicks
    /\ Level = g.Level
    /\ Score = g.Score
    /\ LinesCleared = g.LinesCleared
    /\ ShowDebug = g.ShowDebug
    /\ Panicked = g.Panicked
    /\ Locked = g.Locked
    /\ FastFallingPaused = FALSE /\ DownHeld = FALSE /\ Since = 0
    /\ Rested = 0

\* a game in state g that has called no function on its own
Starts(g) == Holds(g) /\ Input = 0 /\ Output = 0 /\ Calls = 0

KeyNames == {"r", "i", "space", "c", "left", "right", "up", "down"}

Press(s) == [n \in KeyNames |-> n \in s]

\* the key states of one tick the model explores: no key, one key, two of the
\* keys that do not end the tick, and a key that ends the tick with another
Keys ==
    {Press(s) : s \in
        {t \in SUBSET {"c", "left", "right", "up", "down"} : Cardinality(t) <= 2}
        \cup {{"r"}, {"space"}, {"i"}, {"i", "space"}, {"space", "c"},
              {"r", "space"}, {"r", "c"}, {"r", "down"}, {"r", "i"},
              {"i", "c"}, {"i", "left"}, {"space", "left"}, {"space", "down"}}}

\* the values rand.Intn returns in a tick of the model: the pieces I and O
Draws == {0, 3}

\* whether Update calls piece.Rand() with keys k in the current state
Drawing(k) ==
    \/ k.r
    \/ ~k.i /\ k.space
    \/ ~k.i /\ ~k.space /\ k.c /\ ~DidHoldPiece /\ HoldPiece = <<>>
    \/ ~k.i /\ ~k.space /\ ~(k.c /\ ~DidHoldPiece)
         /\ (TicksSinceMove + 1 >= graceMoveTicks \/ LastChanceTicks >= graceTotalTicks)

\* the draws of a tick other than a reset: one piece, or none
OneDraw(k) ==
    {[i \in 0 .. queueSize |-> n] : n \in IF Drawing(k) THEN Draws ELSE {0}}

\* the draws of NewGame in the model: every piece of the catalog is the
\* first or the second of one of them
FourDraws ==
    {Slice(<<0, 2, 3, 1>>), Slice(<<1, 4, 0, 3>>),
     Slice(<<3, 6, 1, 0>>), Slice(<<5, 0, 3, 2>>)}

\* the exploration stops at the bounds: a counter is explored from 0 up to
\* MaxTicks and, the grace counters, MaxTicks around the thresholds of fall
Explored(g) ==
    /\ g.TicksSinceFall <= MaxTicks
    /\ \/ g.TicksSinceMove <= MaxTicks
       \/ g.TicksSinceMove \in graceMoveTicks - MaxTicks .. graceMoveTicks + MaxTicks
    /\ \/ g.LastChanceTicks <= MaxTicks
       \/ g.LastChanceTicks \in graceTotalTicks - MaxTicks .. graceTotalTicks + MaxTicks

\* one call of Update with keys k and draws d; a panic has ended the program
Tick(k, d) ==
    /\ ~Panicked
    /\ k.r \/ Locked < MaxLocked
    /\ \E g \in {Update(Game, k, d)} : Explored(g) /\ Becomes(g)

ResetTick == \E k \in Keys : k.r /\ \E d \in FourDraws : Tick(k, d)

DebugTick == \E k \in Keys : ~k.r /\ k.i /\ \E d \in OneDraw(k) : Tick(k, d)

HardDropTick ==
    \E k \in Keys : ~k.r /\ ~k.i /\ k.space /\ \E d \in OneDraw(k) : Tick(k, d)

HoldTick ==
    \E k \in Keys :
        /\ ~k.r /\ ~k.i /\ ~k.space /\ k.c /\ ~DidHoldPiece
        /\ \E d \in OneDraw(k) : Tick(k, d)

PlayTick ==
    \E k \in Keys :
        /\ ~k.r /\ ~k.i /\ ~k.space /\ ~(k.c /\ ~DidHoldPiece)
        /\ \E d \in OneDraw(k) : Tick(k, d)

Init == \E d \in FourDraws : Starts(NewGame(d))

Next == ResetTick \/ HardDropTick \/ HoldTick \/ PlayTick

Spec == Init /\ [][Next]_vars

NextDebug == Next \/ DebugTick

SpecDebug == Init /\ [][NextDebug]_vars

(***************************************************************************)
(* Games in mid-play.  On the board of the model a vertical I locked from *)
(* the spawn row fills a column, and a horizontal I fills and clears a    *)
(* row; hard drops of I pieces alone therefore reach, from NewGame, a     *)
(* board whose columns cols hold a vertical I each (any proper subset of  *)
(* the columns, the far columns first) after n rows were cleared one by   *)
(* one, with every tick counter at 0 and the hold slot empty.             *)
(***************************************************************************)
\* the score after n single lines cleared by hard-dropped horizontal I pieces:
\* each drops boardHeight - 3 rows, and ten of them make a level
ScoreOfSingles(n) ==
    LET q == n \div linesPerLevel
        full == Min(q, maxLevel + 1)
        lineScores == 5 * full * (full + 1)
                      + (IF q <= maxLevel
                         THEN (n % linesPerLevel) * (q + 1)
                         ELSE (n - linesPerLevel * (maxLevel + 1)) * (maxLevel + 1))
    IN  n * 2 * (boardHeight - 3) + getLineScore(0, 1) * lineScores

MidGame(cols, n, d) ==
    LET g == NewGame(d)
    IN  [g EXCEPT !.Cells = [c \in DOMAIN g.Cells |->
                                IF /\ c % boardWidthWithWalls \in cols
                                   /\ c \div boardWidthWithWalls \in boardHeight - 4 .. boardHeight - 1
                                THEN I.Tint
                                ELSE g.Cells[c]],
                  !.LinesCleared = n,
                  !.Level = Min(n \div linesPerLevel, maxLevel),
                  !.Score = ScoreOfSingles(n)]

\* the games in mid-play the model starts from: the columns filled, the lines
\* cleared so far, and the next four draws
MidGames ==
    {<<PlayableX \ {2}, 0, Slice(<<0, 3, 1, 0>>)>>,
     <<PlayableX \ {2}, 289, Slice(<<0, 1, 3, 0>>)>>,
     <<{1, 2}, 0, Slice(<<3, 0, 1, 3>>)>>,
     <<{1}, 0, Slice(<<0, 3, 0, 1>>)>>,
     <<{boardWidth}, 0, Slice(<<2, 0, 3, 0>>)>>,
     <<{}, 9, Slice(<<0, 3, 0, 1>>)>>,
     <<{}, 10, Slice(<<0, 1, 0, 3>>)>>,
     <<{}, 299, Slice(<<0, 3, 1, 0>>)>>}

InitMid == \E m \in MidGames : Starts(MidGame(m[1], m[2], m[3]))

NextMid == HardDropTick \/ PlayTick

SpecMid == InitMid /\ [][NextMid]_vars

(***************************************************************************)
(* Turns with the hold key.  A game whose hold slot is taken has held a   *)
(* piece in an earlier turn: holdPiece left it in the slot at X = 0,      *)
(* Y = 0 in its spawn orientation, and the commit that ended that turn    *)
(* cleared DidHoldPiece.  The turns start from NewGame (the slot empty)   *)
(* and from games in mid-play with piece h of the catalog in the slot.    *)
(***************************************************************************)
Held(g, h) == [g EXCEPT !.HoldPiece = <<Rand(h)>>]

HeldGames ==
    {<<{1}, 0, Slice(<<1, 3, 0, 3>>), 5>>,
     <<{boardWidth}, 10, Slice(<<0, 0, 3, 0>>), 2>>,
     <<{}, 299, Slice(<<5, 0, 3, 0>>), 0>>,
     <<{1, 2}, 299, Slice(<<0, 3, 0, 3>>), 3>>}

HoldGames ==
    {NewGame(d) : d \in FourDraws}
        \cup {Held(MidGame(m[1], m[2], m[3]), m[4]) : m \in HeldGames}

InitHold == \E g \in HoldGames : Starts(g)

NextHold == HoldTick \/ PlayTick

SpecHold == InitHold /\ [][NextHold]_vars

(***************************************************************************)
(* The grace period.  A game of this section has locked its first piece   *)
(* with a hard drop from column x of the spawn row, and its second piece  *)
(* has come down to where it rests; the player has then kept it moving,   *)
(* so that TicksSinceMove is tsm and LastChanceTicks is lct.  With h a    *)
(* piece of the catalog, the second piece was taken out of the hold slot  *)
(* in this turn and h was put in.                                         *)
(***************************************************************************)
NoHold == 0 - 1

GraceGame(d, n, x, tsm, lct, h) ==
    LET g0 == NewGame(d)
        g1 == Update([g0 EXCEPT !.FallingPiece.X = x], Press({"space"}),
                     [i \in 0 .. queueSize |-> n])
    IN  [g1 EXCEPT !.FallingPiece = ghostPiece(g1).piece,
                   !.TicksSinceMove = tsm,
                   !.LastChanceTicks = lct,
                   !.HoldPiece = IF h = NoHold THEN <<>> ELSE <<Rand(h)>>,
                   !.DidHoldPiece = (h # NoHold),
                   !.Locked = 0]

\* the first four draws, the fifth, the column of the first piece, the two
\* grace counters and the piece in the hold slot
GraceGames ==
    {<<Slice(<<3, 3, 0, 1>>), 3, 1, graceMoveTicks - 1, graceTotalTicks - 1, NoHold>>,
     <<Slice(<<3, 3, 0, 1>>), 0, 1, 0, graceTotalTicks - 1, 5>>,
     <<Slice(<<3, 5, 3, 0>>), 3, 1, graceMoveTicks - 1, 1, NoHold>>,
     <<Slice(<<3, 0, 3, 3>>), 0, 3, 0, 0, NoHold>>,
     <<Slice(<<3, 1, 0, 3>>), 3, 3, 1, graceTotalTicks, 2>>,
     <<Slice(<<5, 3, 0, 3>>), 0, 1, graceMoveTicks - 1, graceTotalTicks - 1, 0>>}

InitGrace ==
    \E m \in GraceGames : Starts(GraceGame(m[1], m[2], m[3], m[4], m[5], m[6]))

NextGrace == HardDropTick \/ PlayTick

SpecGrace == InitGrace /\ [][NextGrace]_vars

(***************************************************************************)
(* Soft drop across a lock.  A game of this section has just locked a     *)
(* resting piece in a tick with the down key pressed (the grace period of *)
(* the piece ran out in that tick), and the down key stays pressed in     *)
(* every tick that follows.                                               *)
(***************************************************************************)
SoftLocked(d, n) ==
    LET g0 == NewGame(d)
        g1 == [g0 EXCEPT !.FallingPiece = ghostPiece(g0).piece,
                         !.TicksSinceMove = graceMoveTicks - 1]
    IN  [Update(g1, Press({"down"}), [i \in 0 .. queueSize |-> n])
            EXCEPT !.Locked = 0]

SoftGames ==
    {SoftLocked(Slice(d), n) :
        d \in {<<0, 3, 5, 0>>, <<0, 5, 3, 1>>, <<0, 0, 3, 3>>,
               <<0, 1, 0, 5>>, <<5, 6, 0, 3>>, <<1, 2, 3, 0>>},
        n \in Draws}

InitSoft == \E g \in SoftGames : Starts(g)

\* a tick of moves, soft drop and gravity with the down key pressed
SoftDropTick ==
    \E k \in Keys :
        /\ ~k.r /\ ~k.i /\ ~k.space /\ ~(k.c /\ ~DidHoldPiece) /\ k.down
        /\ \E d \in OneDraw(k) : Tick(k, d)

NextSoft == SoftDropTick

SpecSoft == InitSoft /\ [][NextSoft]_vars

(***************************************************************************)
(* Every key of Update.  The games start at the end of the grace period,  *)
(* with the hold permitted or used, and every branch of Update is taken:  *)
(* the reset, the debug toggle, the hard drop, the hold, and the tick of  *)
(* play while the piece rests.                                             *)
(***************************************************************************)
ServeGames == {m \in GraceGames : m[5] >= graceTotalTicks - 1 /\ m[3] = 1}

InitServe ==
    \E m \in ServeGames : Starts(GraceGame(m[1], m[2], m[3], m[4], m[5], m[6]))

\* a tick of play on a piece that cannot move down
GraceTick ==
    \E k \in Keys :
        /\ ~k.r /\ ~k.i /\ ~k.space /\ ~(k.c /\ ~DidHoldPiece)
        /\ canMoveDown(Game, FallingPiece) # Free
        /\ \E d \in OneDraw(k) : Tick(k, d)

NextServe == ResetTick \/ DebugTick \/ HardDropTick \/ HoldTick \/ GraceTick

SpecServe == InitServe /\ [][NextServe]_vars

(***************************************************************************)
(* Play without the reset key: from NewGame and from the games in         *)
(* mid-play, every tick of Update but the reset.                          *)
(***************************************************************************)
InitTurn == Init \/ InitMid

NextTurn == DebugTick \/ HardDropTick \/ HoldTick \/ PlayTick

SpecTurn == InitTurn /\ [][NextTurn]_vars

(***************************************************************************)
(* The whole grace period.  A game of this section starts with its first  *)
(* piece come to rest by gravity (TicksSinceMove and LastChanceTicks 0)   *)
(* and runs with TicksSinceMove and LastChanceTicks unbounded, so that    *)
(* the player can keep the piece alive by moving it up to the ceiling of  *)
(* LastChanceTicks.                                                       *)
(***************************************************************************)
LastGame(d) ==
    LET g == NewGame(d)
    IN  [g EXCEPT !.FallingPiece = ghostPiece(g).piece]

LastKeys ==
    {Press(s) : s \in {{}, {"left"}, {"right"}, {"up"}, {"down"}, {"c"}, {"space"}}}

\* whether a tick of keys k calls fall with a piece that cannot move down
RestingFall(k) ==
    /\ ~k.r /\ ~k.i /\ ~k.space /\ ~(k.c /\ ~DidHoldPiece)
    /\ LET m == softDrop(rotate(moveRight(moveLeft([g |-> Game, didMove |-> FALSE], k), k), k), k)
       IN  canMoveDown(m.g, m.g.FallingPiece) # Free

\* the player presses keys right after a move or when the move timer is
\* about to run out, and the hold key near the end of the grace period
LastTick(k, d) ==
    /\ ~Panicked
    /\ Locked < MaxLocked
    /\ \/ k = Press({})
       \/ TicksSinceMove <= MaxTicks
       \/ TicksSinceMove >= graceMoveTicks - 1 - MaxTicks
    /\ ~k.c \/ LastChanceTicks >= graceTotalTicks - 1 - MaxTicks
    /\ \E g \in {Update(Game, k, d)} :
            /\ g.TicksSinceFall <= MaxTicks
            /\ Writes(g)
            /\ Rested' = IF g.Locked # Locked \/ (g.DidHoldPiece /\ ~DidHoldPiece)
                         THEN 0
                         ELSE IF RestingFall(k) THEN Rested + 1 ELSE Rested

LastHardDropTick == \E k \in LastKeys : k.space /\ \E d \in OneDraw(k) : LastTick(k, d)

LastHoldTick ==
    \E k \in LastKeys : k.c /\ ~DidHoldPiece /\ \E d \in OneDraw(k) : LastTick(k, d)

LastPlayTick ==
    \E k \in LastKeys :
        /\ ~k.space /\ ~(k.c /\ ~DidHoldPiece)
        /\ \E d \in OneDraw(k) : LastTick(k, d)

InitLast == \E d \in {Slice(<<3, 5, 0, 3>>), Slice(<<5, 3, 0, 3>>)} : Starts(LastGame(d))

NextLast == LastHardDropTick \/ LastHoldTick \/ LastPlayTick

SpecLast == InitLast /\ [][NextLast]_vars

(***************************************************************************)
(* Play without bound on the counters, for the claim that every piece is  *)
(* locked in the end.  A game of this section starts as NewGame leaves it *)
(* and no tick is ever refused: TicksSinceFall, TicksSinceMove and        *)
(* LastChanceTicks run as far as the program lets them.  The reset and    *)
(* debug keys are not pressed.  The player presses keys at the last       *)
(* moment: in the ticks before gravity moves a piece that can move down,  *)
(* in the ticks before the move timer locks a resting piece (left and     *)
(* right), and in the last ticks of the grace period (any key).           *)
(***************************************************************************)
LiveTick(k, d) ==
    /\ ~Panicked
    /\ Locked < MaxLocked
    /\ \/ k = Press({})
       \/ IF canMoveDown(Game, FallingPiece) = Free
          THEN TicksSinceFall >= fallSpeed(Level) - 1 - MaxTicks
          ELSE \/ LastChanceTicks >= graceTotalTicks - 1 - MaxTicks
               \/ /\ TicksSinceMove >= graceMoveTicks - 1 - MaxTicks
                  /\ ~(k.up \/ k.down \/ k.c)
    /\ Becomes(Update(Game, k, d))

LiveHardDropTick == \E k \in LastKeys : k.space /\ \E d \in OneDraw(k) : LiveTick(k, d)

LiveHoldTick ==
    \E k \in LastKeys : k.c /\ ~DidHoldPiece /\ \E d \in OneDraw(k) : LiveTick(k, d)

LivePlayTick ==
    \E k \in LastKeys :
        /\ ~k.space /\ ~(k.c /\ ~DidHoldPiece)
        /\ \E d \in OneDraw(k) : LiveTick(k, d)

InitLive == \E d \in {Slice(<<3, 5, 0, 3>>), Slice(<<5, 3, 0, 3>>)} : Starts(NewGame(d))

NextLive == LiveHardDropTick \/ LiveHoldTick \/ LivePlayTick

SpecLive == InitLive /\ [][NextLive]_vars

(***************************************************************************)
(* The time-based variant (src/main.go, first program).  Its collision    *)
(* checks, its commit and its hold are those of the scoring variant       *)
(* without the score, the tick counters and ResetRotation; gravity is     *)
(* driven by the wall clock.  The model knows of the clock what fall      *)
(* compares: whether the time since LastAutoFallTime is at most the       *)
(* fast-fall step (0), above it and at most AutoFallStep (1), or above    *)
(* AutoFallStep (2).  A tick sees a time e that is not below the time the *)
(* tick before saw.  The program writes 12, 21 and the spawn column 4 as  *)
(* literals; the model scales them to its board.  removeRow shortens      *)
(* AutoFallStep by 5 ms a row down to the fast-fall step; the model keeps *)
(* it above the fast-fall step, as it is for the first 94 rows cleared.   *)
(***************************************************************************)
\* the fall steps as classes of time: 25 ms and AutoFallStep (500 ms)
fastFallStep == 0
AutoFallStep == 1
Times == 0 .. 2

timedSpawnX == (4 * boardWidthWithWalls) \div 12

timedLoadNextPiece(g, n) ==
    [g EXCEPT !.FallingPiece = [g.Queue[0] EXCEPT !.X = timedSpawnX, !.Y = 0],
              !.Queue = [i \in 0 .. queueSize - 1 |->
                            IF i < queueSize - 1 THEN g.Queue[i + 1] ELSE Rand(n)],
              !.Since = 0]

timedClearLines(g) == [g EXCEPT !.Cells = scanLines(g.Cells, 0, 0).cells]

timedCommitPiece(g, n) ==
    LET d == Descend(g, g.FallingPiece, 0)
        p == d.piece
    IN  IF d.panic \/ \E i \in Occupied(p) : ~InBoard(CellIndex(p, i, 0, 0))
        THEN [g EXCEPT !.FallingPiece = p, !.Panicked = TRUE]
        ELSE LET g1 == [g EXCEPT !.FallingPiece = p, !.Cells = lockCells(g.Cells, p)]
                 g2 == timedClearLines(timedLoadNextPiece(g1, n))
             IN  [g2 EXCEPT !.DidHoldPiece = FALSE, !.Locked = @ + 1]

timedHoldPiece(g, n) ==
    LET g1 == IF g.HoldPiece = <<>>
              THEN timedLoadNextPiece([g EXCEPT !.HoldPiece = <<g.FallingPiece>>], n)
              ELSE [g EXCEPT !.FallingPiece = g.HoldPiece[1],
                             !.HoldPiece = <<g.FallingPiece>>]
    IN  [g1 EXCEPT !.FallingPiece.X = timedSpawnX,
                   !.FallingPiece.Y = 0,
                   !.HoldPiece = <<[g1.HoldPiece[1] EXCEPT !.X = 0, !.Y = 0]>>,
                   !.DidHoldPiece = TRUE]

\* fall of the time-based variant; e is the time since LastAutoFallTime
timedFall(g, step, e, n) ==
    IF e > step
    THEN LET st == canMoveDown(g, g.FallingPiece)
         IN  IF st = Panic
             THEN [g EXCEPT !.Panicked = TRUE]
             ELSE IF st = Free
             THEN [g EXCEPT !.FallingPiece.Y = @ + 1, !.Since = 0]
             ELSE LET g1 == timedCommitPiece(g, n)
                  IN  IF g1.Panicked
                      THEN g1
                      ELSE [g1 EXCEPT !.FastFallingPaused = (@ \/ g.FastFalling),
                                      !.Since = 0]
    ELSE [g EXCEPT !.Since = e]

\* Update of the time-based variant: keys k, released is
\* IsKeyJustReleased(KeyDown), e the time since LastAutoFallTime, n the draw
timedUpdate(g, k, released, e, n) ==
    IF k.space
    THEN timedCommitPiece([g EXCEPT !.Since = e], n)
    ELSE IF k.c /\ ~g.DidHoldPiece
    THEN timedHoldPiece([g EXCEPT !.Since = e], n)
    ELSE LET m == rotate(moveRight(moveLeft([g |-> g, didMove |-> FALSE], k), k), k)
             fast == ~m.g.FastFallingPaused /\ k.down
             g1 == [m.g EXCEPT !.FastFalling = (@ \/ fast)]
             g2 == [g1 EXCEPT !.FastFallingPaused = (@ /\ ~released)]
         IN  IF m.g.Panicked
             THEN m.g
             ELSE timedFall(g2, IF fast THEN fastFallStep ELSE AutoFallStep, e, n)

TimedGame ==
    [Cells |-> Cells, Queue |-> Queue, DidHoldPiece |-> DidHoldPiece,
     HoldPiece |-> HoldPiece, FallingPiece |-> FallingPiece,
     FastFalling |-> FastFalling, FastFallingPaused |-> FastFallingPaused,
     Since |-> Since, Panicked |-> Panicked, Locked |-> Locked]

timedNewGame(d) ==
    timedLoadNextPiece(
        [Cells |-> placeBorderCells([c \in 0 .. cellCount - 1 |-> Nil]),
         Queue |-> fillQueue(d),
         DidHoldPiece |-> FALSE,
         HoldPiece |-> <<>>,
         FallingPiece |-> NewPiece(<<>>, 0, 0, Nil),
         FastFalling |-> FALSE,
         FastFallingPaused |-> FALSE,
         Since |-> 0,
         Panicked |-> FALSE,
         Locked |-> 0],
        d[queueSize])

TimedBecomes(g, k) ==
    /\ Cells' = g.Cells
    /\ Queue' = g.Queue
    /\ DidHoldPiece' = g.DidHoldPiece
    /\ HoldPiece' = g.HoldPiece
    /\ FallingPiece' = g.FallingPiece
    /\ FastFalling' = g.FastFalling
    /\ FastFallingPaused' = g.FastFallingPaused
    /\ Since' = g.Since
    /\ Panicked' = g.Panicked
    /\ Locked' = g.Locked
    /\ DownHeld' = k.down
    /\ UNCHANGED <<TicksSinceFall, TicksSinceMove, LastChanceTicks, Level, Score,
                   LinesCleared, ShowDebug, Input, Output, Calls, Rested>>

\* the keys the time-based variant samples
TimedKeys == {k \in Keys : ~k.r /\ ~k.i}

\* the pieces drawn in the model of the variant: O, T, J
TimedDraws == {3, 5}

TimedTick(k, e, n) ==
    /\ ~Panicked
    /\ Locked < MaxLocked
    /\ e >= Since
    /\ TimedBecomes(timedUpdate(TimedGame, k, DownHeld /\ ~k.down, e, n), k)

TimedHardDropTick ==
    \E k \in TimedKeys : k.space /\ \E e \in Times, n \in TimedDraws : TimedTick(k, e, n)

TimedHoldTick ==
    \E k \in TimedKeys :
        /\ ~k.space /\ k.c /\ ~DidHoldPiece
        /\ \E e \in Times, n \in TimedDraws : TimedTick(k, e, n)

TimedPlayTick ==
    \E k \in TimedKeys :
        /\ ~k.space /\ ~(k.c /\ ~DidHoldPiece)
        /\ \E e \in Times, n \in TimedDraws : TimedTick(k, e, n)

InitTimed ==
    \E d \in {Slice(<<3, 5, 1, 3>>), Slice(<<5, 3, 3, 1>>)} :
        LET g == timedNewGame(d)
        IN  /\ Cells = g.Cells
            /\ Queue = g.Queue
            /\ DidHoldPiece = g.DidHoldPiece
            /\ HoldPiece = g.HoldPiece
            /\ FallingPiece = g.FallingPiece
            /\ FastFalling = g.FastFalling
            /\ FastFallingPaused = g.FastFallingPaused
            /\ Since = g.Since
            /\ Panicked = g.Panicked
            /\ Locked = g.Locked
            /\ DownHeld = FALSE
            /\ Rested = 0
            /\ TicksSinceFall = 0 /\ TicksSinceMove = 0 /\ LastChanceTicks = 0
            /\ Level = 0 /\ Score = 0 /\ LinesCleared = 0 /\ ShowDebug = FALSE
            /\ Input = 0 /\ Output = 0 /\ Calls = 0

NextTimed == TimedHardDropTick \/ TimedHoldTick \/ TimedPlayTick

SpecTimed == InitTimed /\ [][NextTimed]_vars

(***************************************************************************)
(* Calls of getFallSpeed and of Piece.Rotate on their own.  The game      *)
(* stays as NewGame left it; a run-time panic of the call ends the        *)
(* program (Panicked).                                                     *)
(***************************************************************************)
\* the largest level getFallSpeed is called with
MaxLevelArg == 59
\* the occupied cells of the masks Rotate is called with, beside the catalog
MaxCells == 2
\* the calls of Rotate on one piece
MaxCalls == 4

gameVars == <<Cells, Queue, DidHoldPiece, HoldPiece, FallingPiece, FastFalling,
              TicksSinceFall, TicksSinceMove, LastChanceTicks,
              Level, Score, LinesCleared, ShowDebug, Locked,
              FastFallingPaused, DownHeld, Since, Rested>>

FirstGame == NewGame(Slice(<<0, 2, 3, 1>>))

InitSpeed ==
    /\ Holds(FirstGame)
    /\ Input \in 0 .. MaxLevelArg
    /\ Output = 0
    /\ Calls = 0

CallGetFallSpeed ==
    /\ Calls = 0
    /\ Output' = getFallSpeed(Input)
    /\ Calls' = 1
    /\ UNCHANGED <<gameVars, Panicked, Input>>

NextSpeed == CallGetFallSpeed

SpecSpeed == InitSpeed /\ [][NextSpeed]_vars

\* a piece of width w and height h whose occupied mask cells are those of s
MaskOf(s, w, h) ==
    [Mask |-> [i \in 0 .. w * h - 1 |-> IF i \in s THEN 1 ELSE 0],
     Width |-> w, Height |-> h, Tint |-> "T", X |-> 0, Y |-> 0, Rotation |-> 0]

\* width and height of the masks: the squares of the catalog and the boxes
\* TrimSpace cuts out of them
Sizes == {<<2, 2>>, <<3, 3>>, <<4, 4>>, <<3, 2>>, <<2, 3>>, <<4, 1>>, <<1, 4>>}

\* T and I as TrimSpace returns them
Trimmed == {MaskOf({1, 3, 4, 5}, 3, 2), MaskOf({0, 1, 2, 3}, 4, 1)}

RotatePieces ==
    {allPieces[n] : n \in DOMAIN allPieces}
    \cup Trimmed
    \cup UNION {{MaskOf(s, z[1], z[2]) :
                    s \in {c \in SUBSET (0 .. z[1] * z[2] - 1) : Cardinality(c) <= MaxCells}} :
                z \in Sizes}

InitRotate ==
    /\ Holds(FirstGame)
    /\ Input \in RotatePieces
    /\ Output = Input
    /\ Calls = 0

CallRotate ==
    /\ ~Panicked
    /\ Calls < MaxCalls
    /\ Calls' = Calls + 1
    /\ IF RotatePanics(Output)
       THEN Panicked' = TRUE /\ UNCHANGED Output
       ELSE Output' = Rotate(Output) /\ UNCHANGED Panicked
    /\ UNCHANGED <<gameVars, Input>>

NextRotate == CallRotate

SpecRotate == InitRotate /\ [][NextRotate]_vars

(***************************************************************************)
(* Calls of Piece.TrimSpace on its own: on the catalog pieces in every    *)
(* orientation, on the masks Rotate is called with, and on the masks of   *)
(* TestPiece_TrimSpace, which sets no Width.                               *)
(***************************************************************************)
Oriented == {RotateTimes(allPieces[n], r) : n \in DOMAIN allPieces, r \in 0 .. 3}

Unsized == {[T EXCEPT !.Width = 0, !.Height = 0],
            [J EXCEPT !.Width = 0, !.Height = 0],
            [MaskOf({4}, 3, 3) EXCEPT !.Width = 0, !.Height = 0]}

TrimPieces == Oriented \cup RotatePieces \cup Unsized

InitTrim ==
    /\ Holds(FirstGame)
    /\ Input \in TrimPieces
    /\ Output = Input
    /\ Calls = 0

CallTrimSpace ==
    /\ ~Panicked
    /\ Calls < MaxCalls
    /\ Calls' = Calls + 1
    /\ IF TrimPanics(Output)
       THEN Panicked' = TRUE /\ UNCHANGED Output
       ELSE Output' = TrimSpace(Output) /\ UNCHANGED Panicked
    /\ UNCHANGED <<gameVars, Input>>

NextTrim == CallTrimSpace

SpecTrim == InitTrim /\ [][NextTrim]_vars

(***************************************************************************)
(* Calls of clearLines on boards taller than the board the model plays    *)
(* on.  With boardHeight rows clearLines cannot count more than           *)
(* boardHeight lines; the boards of this section have TallHeight rows.    *)
(* A board is given at the call of clearLines in commitPiece, the piece   *)
(* locked: its rows are full, full but for one cell, or empty.  The rows  *)
(* that were full before the lock are the top ones (removeRow never       *)
(* empties row 0 and copies it down at each removal); the piece spans at  *)
(* most four consecutive rows, so the other full rows lie within four     *)
(* consecutive rows.  With more than three full rows on top no piece      *)
(* passes the spawn rows.  Level is that of a new game.                   *)
(***************************************************************************)
TallHeight == 6

RowKinds == {"full", "gap", "empty"}

\* the board whose playable rows are of the kinds rows[0], rows[1], ...
TallBoard(rows) ==
    [c \in 0 .. boardWidthWithWalls * (TallHeight + floorThickness) - 1 |->
        LET x == c % boardWidthWithWalls
            y == c \div boardWidthWithWalls
        IN  IF x \notin PlayableX \/ y >= TallHeight
            THEN Wall
            ELSE IF rows[y] = "full" \/ (rows[y] = "gap" /\ x # wallThickness)
                 THEN "O"
                 ELSE Nil]

TallRows ==
    {rows \in [0 .. TallHeight - 1 -> RowKinds] :
        \E k \in 0 .. 3 : \E w \in k .. TallHeight - 1 :
            /\ \A y \in 0 .. k - 1 : rows[y] = "full"
            /\ \A y \in k .. TallHeight - 1 :
                   rows[y] = "full" => y \in w .. w + 3}

\* the scan of clearLines on a board of h playable rows, from row y on
RECURSIVE countLines(_, _, _, _)
countLines(cells, h, y, lines) ==
    IF y < h
    THEN IF RowFull(cells, y)
         THEN countLines(removeRow(cells, y), h, y + 1, lines + 1)
         ELSE countLines(cells, h, y + 1, lines)
    ELSE [cells |-> cells, lines |-> lines]

\* clearLines on a tall board: the board it leaves, the lines it counts and
\* what it adds to Score
tallClearLines(cells) ==
    LET r == countLines(cells, TallHeight, 0, 0)
    IN  [cells |-> r.cells,
         lines |-> r.lines,
         points |-> IF r.lines > 0 THEN getLineScore(Level, r.lines) ELSE 0]

InitLines ==
    /\ Holds(FirstGame)
    /\ Input \in {TallBoard(rows) : rows \in TallRows}
    /\ Output = [cells |-> Input, lines |-> 0, points |-> 0]
    /\ Calls = 0

\* a commit on the board the call before left; its piece fills no further row
CallClearLines ==
    /\ ~Panicked
    /\ Calls < MaxCalls
    /\ Calls' = Calls + 1
    /\ Output' = tallClearLines(Output.cells)
    /\ UNCHANGED <<gameVars, Input, Panicked>>

NextLines == CallClearLines

SpecLines == InitLines /\ [][NextLines]_vars

(***************************************************************************)
(* Properties.                                                             *)
(***************************************************************************)
\* the catalog piece of tint t: the shape in its spawn orientation
Shape(t) == allPieces[CHOOSE n \in DOMAIN allPieces : allPieces[n].Tint = t]

\* a tick whose keys ask for a hold and for nothing that ends the tick before
HoldRequest(k) == k.c /\ ~k.r /\ ~k.i /\ ~k.space

\* the board between the writes of commitPiece and the call of clearLines
Committed == lockCells(Cells, ghostPiece(Game).piece)

\* C1: in every reachable state no access of Cells has been out of range, and
\* every index that canMoveLeft, canMoveRight, canMoveDown, canRotate,
\* ghostPiece and commitPiece compute from the state lies in 0 .. cellCount-1:
\* a move or a rotation into a wall or the floor ends at a border cell.
C1_IndicesInRange ==
    /\ ~Panicked
    /\ DOMAIN Cells = 0 .. cellCount - 1
    /\ canMoveLeft(Game) # Panic
    /\ canMoveRight(Game) # Panic
    /\ canMoveDown(Game, FallingPiece) # Panic
    /\ canRotate(Game) # Panic
    /\ ~ghostPiece(Game).panic
    /\ \A i \in Occupied(ghostPiece(Game).piece) :
            InBoard(CellIndex(ghostPiece(Game).piece, i, 0, 0))

\* C1, witness: a rotated piece in the corner of the left wall and the floor,
\* an empty column of its mask inside the wall; the move to the left, the move
\* down and the rotation are all rejected
C1_PieceInCorner ==
    /\ ~Panicked
    /\ FallingPiece.Width >= 3
    /\ FallingPiece.X < wallThickness
    /\ canMoveLeft(Game) = Hit
    /\ canMoveDown(Game, FallingPiece) = Hit
    /\ canRotate(Game) = Hit

\* C2: in every reachable state every cell of the first and of the last
\* column and every cell of the floor row is the wall cell NewGame put there.
C2_BorderOccupied ==
    \A c \in 0 .. cellCount - 1 :
        (\/ c % boardWidthWithWalls = 0
         \/ c % boardWidthWithWalls = boardWidthWithWalls - 1
         \/ c \div boardWidthWithWalls = boardHeight)
        => Cells[c] = Wall

\* C2, witness: a piece was held, another was locked and a line was cleared
C2_AfterHoldCommitAndClear ==
    /\ Locked >= 1
    /\ LinesCleared >= 1
    /\ HoldPiece # <<>>
    /\ C2_BorderOccupied

\* C3, as the specification states it: after a commit that cleared a line the
\* playable cells of row 0 are empty.
C3_TopRowEmptyAfterClear ==
    [][LinesCleared' > LinesCleared
        => \A x \in PlayableX : Cells'[x] = Nil]_vars

\* C4: a commit whose board has exactly one full playable row r leaves in every
\* playable cell (y, x), 1 <= y <= r, what (y-1, x) held, leaves the playable
\* rows below r and the border as they were, and adds 1 to LinesCleared.
C4_OneFullRowShift ==
    [][Locked' = Locked + 1
        => LET B == Committed
               full == {y \in 0 .. boardHeight - 1 : RowFull(B, y)}
           IN  Cardinality(full) = 1
               => LET r == CHOOSE y \in full : TRUE
                  IN  /\ \A y \in 1 .. r : \A x \in PlayableX :
                            Cells'[y * boardWidthWithWalls + x]
                                = B[(y - 1) * boardWidthWithWalls + x]
                      /\ \A y \in r + 1 .. boardHeight - 1 : \A x \in PlayableX :
                            Cells'[y * boardWidthWithWalls + x]
                                = B[y * boardWidthWithWalls + x]
                      /\ \A c \in 0 .. cellCount - 1 :
                            (\/ c % boardWidthWithWalls \notin PlayableX
                             \/ c \div boardWidthWithWalls >= boardHeight)
                            => Cells'[c] = B[c]
                      /\ LinesCleared' = LinesCleared + 1]_vars

\* C4, witness: one line was cleared and cells of the rows above it are on
\* the board
C4_RowsShifted ==
    /\ Locked = 1
    /\ LinesCleared = 1
    /\ \E y \in 1 .. boardHeight - 1 : \E x \in PlayableX :
            Cells[y * boardWidthWithWalls + x] # Nil

\* C5: a commit that adds n lines, 1 <= n <= 4, to LinesCleared at level L adds
\* 40, 100, 300 or 1200 times L + 1 to the score, L being the level before the
\* commit; a commit that adds no line adds no line score.  What the score
\* gains besides is the two points for each row of the drop.
C5_LineScore ==
    [][Locked' = Locked + 1
        => LET n == LinesCleared' - LinesCleared
               table == [i \in 0 .. 4 |->
                            CASE i = 0 -> 0 [] i = 1 -> 40 [] i = 2 -> 100
                              [] i = 3 -> 300 [] i = 4 -> 1200]
           IN  n \in 0 .. 4
               => Score' = Score + 2 * ghostPiece(Game).rows + table[n] * (Level + 1)]_vars

\* C5, witness: four lines cleared at level 0 gave 1200
C5_TetrisAtLevelZero ==
    /\ Locked = 1
    /\ LinesCleared = 4
    /\ Level = 0
    /\ Score = 1200

\* C6: in every reachable state Level = min(LinesCleared / 10, 29).
C6_LevelOfLines ==
    Level = (IF LinesCleared \div 10 < 29 THEN LinesCleared \div 10 ELSE 29)

\* C6, witness: the 300th line was cleared and the level stayed 29
C6_LevelCapped ==
    /\ Locked = 1
    /\ LinesCleared = 300
    /\ Level = 29

\* C7: a hold request with the slot empty and no hold in this turn puts the
\* falling piece (its shape) into the slot, makes the front of the queue the
\* falling piece at the spawn position, moves the queue up by one with the
\* piece drawn at the back, and sets DidHoldPiece.
C7_HoldIntoEmptySlot ==
    [][\A k \in Keys : \A d \in OneDraw(k) :
        (HoldRequest(k) /\ ~DidHoldPiece /\ HoldPiece = <<>> /\ Tick(k, d))
        => /\ Len(HoldPiece') = 1
           /\ HoldPiece'[1].Tint = FallingPiece.Tint
           /\ HoldPiece'[1].Mask \in {RotateTimes(FallingPiece, n).Mask : n \in 0 .. 3}
           /\ FallingPiece' = [Queue[0] EXCEPT !.X = SpawnX(Queue[0]), !.Y = 0]
           /\ DOMAIN Queue' = 0 .. queueSize - 1
           /\ \A i \in 0 .. queueSize - 2 : Queue'[i] = Queue[i + 1]
           /\ Queue'[queueSize - 1] = Rand(d[0])
           /\ DidHoldPiece'
           /\ Cells' = Cells]_vars

\* C7, witness: the T of a new game is in the slot and the I that was the
\* front of the queue is the falling piece
C7_FirstPieceHeld ==
    /\ DidHoldPiece
    /\ LinesCleared = 0
    /\ \A c \in 0 .. cellCount - 1 : Cells[c] \in {Nil, Wall}
    /\ Len(HoldPiece) = 1
    /\ HoldPiece[1].Tint = "T"
    /\ FallingPiece.Tint = "I"

\* C8, as the specification states it: a hold request after a hold of the same
\* turn, with no other key pressed, leaves the hold slot, the falling piece,
\* the queue, the board, the score and DidHoldPiece as they were.
C8_RejectedHoldChangesNothing ==
    [][\A d \in OneDraw(Press({"c"})) :
        (DidHoldPiece /\ Tick(Press({"c"}), d))
        => UNCHANGED <<HoldPiece, FallingPiece, Queue, Cells, Score, DidHoldPiece>>]_vars

\* C8, amended: a hold request after a hold of the same turn does not touch
\* the hold slot, and the tick is the tick the same keys without the hold key
\* make: the moves, gravity and a lock go on.
C8_RejectedHoldIsIgnored ==
    [][\A k \in Keys : \A d \in OneDraw(k) :
        (HoldRequest(k) /\ DidHoldPiece /\ Tick(k, d))
        => /\ HoldPiece' = HoldPiece
           /\ Becomes(Update(Game, [k EXCEPT !.c = FALSE], d))]_vars

\* C8, witness: after a hold of this turn the piece has gone down and is due
\* to go down again in the next tick, whatever the keys
C8_HeldAndFalling ==
    /\ DidHoldPiece
    /\ HoldPiece # <<>>
    /\ FallingPiece.Y > 0
    /\ TicksSinceFall >= getFallSpeed(Level)
    /\ canMoveDown(Game, FallingPiece) = Free

\* C9: a hold request with a piece in the slot and no hold in this turn makes
\* the shape of the slot the falling piece at the spawn column, Y = 0, in its
\* spawn orientation, puts the shape that was falling into the slot in its
\* spawn orientation, and leaves the queue and the board as they were.
C9_HoldSwaps ==
    [][\A k \in Keys : \A d \in OneDraw(k) :
        (HoldRequest(k) /\ ~DidHoldPiece /\ HoldPiece # <<>> /\ Tick(k, d))
        => /\ FallingPiece' = [Shape(HoldPiece[1].Tint) EXCEPT
                                    !.X = SpawnX(Shape(HoldPiece[1].Tint)), !.Y = 0]
           /\ HoldPiece' = <<Shape(FallingPiece.Tint)>>
           /\ Queue' = Queue
           /\ Cells' = Cells
           /\ DidHoldPiece']_vars

\* C9, witness: the T that was falling is in the slot, the I of the slot is
\* the falling piece, and the queue is the queue of the start
C9_Swapped ==
    /\ DidHoldPiece
    /\ LinesCleared = 299
    /\ HoldPiece = <<T>>
    /\ FallingPiece.Tint = "I"
    /\ Queue = fillQueue(Slice(<<0, 3, 0>>))

\* C10: loadNextPiece keeps the queue at queueSize pieces and is first in,
\* first out: the front of the queue becomes the falling piece at the spawn
\* position, every other piece moves up by one, and a piece of the catalog
\* comes in at the back.
C10_QueueIsFifo ==
    [][Locked' = Locked + 1
        => /\ FallingPiece' = [Queue[0] EXCEPT !.X = SpawnX(Queue[0]), !.Y = 0]
           /\ DOMAIN Queue' = 0 .. queueSize - 1
           /\ \A i \in 0 .. queueSize - 2 : Queue'[i] = Queue[i + 1]
           /\ \E n \in DOMAIN allPieces : Queue'[queueSize - 1] = allPieces[n]]_vars

\* C10, witness: after the commit of the first piece the second piece drawn
\* is falling and the third and the fourth are the front of the queue
C10_SecondPieceFalling ==
    /\ Locked = 1
    /\ FallingPiece = [O EXCEPT !.X = SpawnX(O), !.Y = 0]
    /\ Queue[0] = I
    /\ Queue[1] = J

\* the game fall is called with in a tick of keys k: the moves, the rotation
\* and the soft drop of the tick are done and TicksSinceMove is brought up
PreFall(k) ==
    LET m == softDrop(rotate(moveRight(moveLeft([g |-> Game, didMove |-> FALSE], k), k), k), k)
    IN  [m.g EXCEPT !.TicksSinceMove = IF m.didMove THEN 0 ELSE @ + 1]

\* the piece commitPiece is called with in a tick of keys k that locks
AtCommit(k) == IF k.space THEN FallingPiece ELSE PreFall(k).FallingPiece

\* the rows piece p can go straight down on the board before a cell stops it
RowsBelow(p) ==
    CHOOSE n \in 0 .. boardHeightWithFloor :
        /\ Probe(Cells, [p EXCEPT !.Y = @ + n], 0, 1) # Free
        /\ \A m \in 0 .. n - 1 : Probe(Cells, [p EXCEPT !.Y = @ + m], 0, 1) = Free

\* C11: a commit locks the piece at the lowest row of its straight descent,
\* same X and mask, and the board clearLines is given holds the tint of the
\* piece at the occupied mask cells of that position and is elsewhere the
\* board of before.
C11_LocksAtGhost ==
    [][\A k \in Keys : \A d \in OneDraw(k) :
        (~k.r /\ ~k.i /\ Tick(k, d) /\ Locked' = Locked + 1)
        => LET p0 == AtCommit(k)
               p == [p0 EXCEPT !.Y = @ + RowsBelow(p0)]
               written == {(p.Y + (i \div p.Width)) * boardWidthWithWalls
                               + p.X + (i % p.Width) :
                           i \in {j \in DOMAIN p.Mask : p.Mask[j] # 0}}
               board == [c \in 0 .. cellCount - 1 |->
                            IF c \in written THEN p.Tint ELSE Cells[c]]
           IN  /\ written \subseteq 0 .. cellCount - 1
               /\ Cells' = scanLines(board, 0, 0).cells
               /\ LinesCleared' = LinesCleared => Cells' = board]_vars

\* C11, witness: a piece pushed off the piece it rested on was locked on the
\* floor beside it and filled two rows
C11_LockedBeside ==
    /\ Locked = 1
    /\ LinesCleared = 2
    /\ Level = 0

\* C12: a tick with the hard-drop key locks the falling piece in that tick,
\* whatever TicksSinceMove and LastChanceTicks are, and adds to the score two
\* points for each row of the descent besides the line score.
C12_HardDropLocksNow ==
    [][\A k \in Keys : \A d \in OneDraw(k) :
        (k.space /\ ~k.r /\ ~k.i /\ Tick(k, d))
        => /\ Locked' = Locked + 1
           /\ LET n == LinesCleared' - LinesCleared
                  table == [i \in 0 .. 4 |->
                               CASE i = 0 -> 0 [] i = 1 -> 40 [] i = 2 -> 100
                                 [] i = 3 -> 300 [] i = 4 -> 1200]
              IN  n \in 0 .. 4
                  => Score' = Score + 2 * RowsBelow(FallingPiece)
                                    + table[n] * (Level + 1)]_vars

\* C12, witness: a piece in the air, one tick after its last fall, was locked
\* two rows further down before any grace period began
C12_DroppedTwoRows ==
    /\ Locked = 1
    /\ TicksSinceFall = 1
    /\ LinesCleared = 2
    /\ Score = 4 + 4 + 100

\* C13: in a tick that reaches fall with the piece resting, fall locks the
\* piece if TicksSinceMove >= 30 or LastChanceTicks >= 120, and otherwise
\* leaves it where it is and adds 1 to LastChanceTicks; with the piece free
\* to move down fall locks nothing.
C13_GraceLock ==
    [][\A k \in Keys : \A d \in OneDraw(k) :
        (~k.r /\ ~k.i /\ ~k.space /\ ~(k.c /\ ~DidHoldPiece) /\ Tick(k, d))
        => LET g == PreFall(k)
               resting == canMoveDown(g, g.FallingPiece) # Free
               due == g.TicksSinceMove >= 30 \/ g.LastChanceTicks >= 120
           IN  /\ (resting /\ due) => Locked' = Locked + 1
               /\ (resting /\ ~due)
                    => /\ Locked' = Locked
                       /\ FallingPiece' = g.FallingPiece
                       /\ LastChanceTicks' = g.LastChanceTicks + 1
               /\ ~resting => Locked' = Locked]_vars

\* C13, witness: a piece was locked by the tick that brought TicksSinceMove
\* to 30
C13_LockedByMoveTimer ==
    /\ Locked = 1
    /\ TicksSinceMove = 30
    /\ TicksSinceFall = 0
    /\ LastChanceTicks = 0

\* C15: the tick of a commit ends with the piece that was the front of the
\* queue falling at the spawn position, the queue full, DidHoldPiece false
\* and LastChanceTicks 0.
C15_CommitStartsTurn ==
    [][Locked' = Locked + 1
        => /\ FallingPiece' = [Queue[0] EXCEPT !.X = SpawnX(Queue[0]), !.Y = 0]
           /\ DOMAIN Queue' = 0 .. queueSize - 1
           /\ \A i \in 0 .. queueSize - 1 :
                \E n \in DOMAIN allPieces : Queue'[i] = allPieces[n]
           /\ ~DidHoldPiece'
           /\ LastChanceTicks' = 0]_vars

\* C15, witness: the turn in which a piece was taken out of the hold slot has
\* ended with a commit, and a hold is permitted again
C15_HoldPermittedAgain ==
    /\ Locked = 1
    /\ HoldPiece # <<>>
    /\ ~DidHoldPiece
    /\ LastChanceTicks = 0

\* C14, as the specification states it: when gravity takes the falling piece
\* down a row, TicksSinceFall, TicksSinceMove and LastChanceTicks are 0 after
\* the step.
C14_GravityStepResetsCounters ==
    [][(Locked' = Locked /\ FallingPiece'.Y = FallingPiece.Y + 1)
        => /\ TicksSinceFall' = 0
           /\ TicksSinceMove' = 0
           /\ LastChanceTicks' = 0]_vars

\* C16, as the specification states it: with the down key held since the lock
\* of the piece before, gravity takes the falling piece down only when the
\* interval of the level has passed since its last fall.
C16_SoftDropPausedAfterLock ==
    [][(Locked' = Locked /\ FallingPiece'.Y = FallingPiece.Y + 1)
        => TicksSinceFall >= getFallSpeed(Level)]_vars

\* C17: a tick with the r key pressed, whatever other keys are pressed with it
\* and whatever the state is, leaves a freshly constructed game: the board
\* holds the wall and floor cells only, Score, LinesCleared and Level are 0,
\* the hold slot is empty and the hold permitted, the tick counters are 0, the
\* queue holds queueSize drawn pieces and the first piece drawn falls from the
\* spawn position.
C17_ResetStartsAfresh ==
    [][\A k \in Keys : \A d \in FourDraws :
        (k.r /\ Tick(k, d))
        => /\ \A c \in 0 .. cellCount - 1 :
                Cells'[c] = IF IsBorder(c % boardWidthWithWalls, c \div boardWidthWithWalls)
                            THEN Wall ELSE Nil
           /\ DOMAIN Cells' = 0 .. cellCount - 1
           /\ Score' = 0 /\ LinesCleared' = 0 /\ Level' = 0
           /\ HoldPiece' = <<>> /\ ~DidHoldPiece'
           /\ TicksSinceFall' = 0 /\ TicksSinceMove' = 0 /\ LastChanceTicks' = 0
           /\ ~FastFalling' /\ ~Panicked'
           /\ FallingPiece' = [Rand(d[0]) EXCEPT !.X = SpawnX(Rand(d[0])), !.Y = 0]
           /\ Queue' = [i \in 0 .. queueSize - 1 |-> Rand(d[i + 1])]]_vars

\* a game reset after a piece was locked: no point and no cell of it is left
C17_ResetAfterLock ==
    /\ Locked = 1
    /\ Score = 0
    /\ \A c \in 0 .. cellCount - 1 : Cells[c] \in {Nil, Wall}
    /\ \A y \in 0 .. boardHeight - 1 : \A x \in PlayableX :
            Cells[y * boardWidthWithWalls + x] = Nil

\* the greatest level of the table that is at most level
GreatestKey(level) ==
    CHOOSE k \in fallSpeedKeys :
        k <= level /\ \A j \in fallSpeedKeys : j <= level => j <= k

\* C18: getFallSpeed(level) is, for a level in 0 .. 29, the table value of the
\* greatest level of the table that is at most level (6 for 15, 5 for 17, 2 for
\* 23 .. 28) and 1 for a level above 29; it is at least 1 and at most the value
\* for every smaller level.
C18_FallSpeedOfLevel ==
    Calls = 1 =>
        /\ Input <= 29 => Output = fallSpeed(GreatestKey(Input))
        /\ Input > 29 => Output = 1
        /\ Input = 15 => Output = 6
        /\ Input = 17 => Output = 5
        /\ Input \in 23 .. 28 => Output = 2
        /\ Output >= 1
        /\ \A l \in 0 .. Input : getFallSpeed(l) >= Output

\* getFallSpeed called with a level between two levels of the table
C18_BetweenKeys == Calls = 1 /\ Input = 25 /\ Output = 2 /\ 25 \notin fallSpeedKeys

\* a piece whose mask is a square of side 3 or 4
Square(p) ==
    /\ p.Width \in {3, 4}
    /\ p.Height = p.Width
    /\ DOMAIN p.Mask = 0 .. p.Width * p.Width - 1

\* C19: a call of Rotate on a 3x3 or 4x4 piece takes the mask cell of row r and
\* column c to row c and column n-1-r and leaves Width and Height unchanged, the
\* mask after the fourth call is the original mask, and a call on a piece of
\* width 2 returns it unchanged.
C19_RotateQuarterTurn ==
    [][Calls' = Calls + 1 =>
        /\ Square(Output) =>
            /\ ~Panicked'
            /\ DOMAIN Output'.Mask = DOMAIN Output.Mask
            /\ \A r, c \in 0 .. Output.Width - 1 :
                    Output'.Mask[c * Output.Width + (Output.Width - 1 - r)]
                        = Output.Mask[r * Output.Width + c]
            /\ Output'.Width = Output.Width
            /\ Output'.Height = Output.Height
            /\ Calls' = 4 => Output'.Mask = Input.Mask
        /\ Output.Width = 2 => (Output' = Output /\ ~Panicked')]_vars

\* four calls of Rotate on the piece L, whose mask differs after each of the
\* first three
C19_FullTurnOfL ==
    /\ Calls = 4
    /\ Input = L
    /\ Output.Mask = L.Mask
    /\ Cardinality({RotateTimes(L, n).Mask : n \in 0 .. 3}) = 4

\* C20, as the specification states it: a call of Rotate on a piece of width 3
\* or more whose mask length is neither 9 nor 16 returns the piece unchanged and
\* does not end the program.
C20_UnregisteredIsNoOp ==
    [][(/\ Calls' = Calls + 1
        /\ Output.Width >= 3
        /\ Cardinality(DOMAIN Output.Mask) \notin {9, 16})
        => (Output' = Output /\ ~Panicked')]_vars

\* the game when Update tests the up key of a tick of keys k: the lateral
\* moves of the tick are done
PreRotate(k) == moveRight(moveLeft([g |-> Game, didMove |-> FALSE], k), k).g

\* C21: canRotate is true exactly when the falling piece is not the 2x2 piece
\* and every occupied cell of its rotated mask, at the X and Y the piece has,
\* is on an empty board cell; the up key rotates the piece when canRotate is
\* true, and otherwise the tick leaves X and the mask as the lateral moves left
\* them.
C21_RotateOnlyIfFree ==
    [][\A k \in Keys : \A d \in OneDraw(k) :
        (/\ ~k.r /\ ~k.i /\ ~k.space /\ ~(k.c /\ ~DidHoldPiece)
         /\ Tick(k, d) /\ Locked' = Locked)
        => LET p == PreRotate(k).FallingPiece
               n == p.Width
               turned == [i \in DOMAIN p.Mask |->
                            p.Mask[(n - 1 - (i % n)) * n + (i \div n)]]
               fits == /\ ~(p.Width = 2 /\ p.Height = 2)
                       /\ \A i \in DOMAIN p.Mask :
                            turned[i] # 0
                            => Cells[(p.Y + (i \div n)) * boardWidthWithWalls
                                        + p.X + (i % n)] = Nil
           IN  /\ (canRotate(PreRotate(k)) = Free) <=> fits
               /\ FallingPiece'.X = p.X
               /\ FallingPiece'.Y \in {p.Y, p.Y + 1}
               /\ FallingPiece'.Mask = IF k.up /\ fits THEN turned ELSE p.Mask]_vars

\* a piece that was rotated and cannot be rotated again where it is: a locked
\* cell is in the way
C21_RotationBlocked ==
    /\ FallingPiece.Rotation # 0
    /\ canRotate(Game) = Hit
    /\ \E i \in Occupied(Rotate(FallingPiece)) :
            Cells[CellIndex(Rotate(FallingPiece), i, 0, 0)] \in Tints

\* a piece with a mask of Width columns and Height rows and an occupied cell
Sized(p) ==
    /\ p.Width >= 1
    /\ DOMAIN p.Mask = 0 .. p.Width * p.Height - 1
    /\ \E i \in DOMAIN p.Mask : p.Mask[i] # 0

C23_TrimTwice ==
    [][(Calls = 1 /\ Calls' = 2 /\ Input \in Oriented)
        => /\ ~Panicked'
           /\ Output'.Mask = Output.Mask
           /\ Output'.Width = Output.Width
           /\ Output'.Height = Output.Height]_vars

\* TrimSpace called twice on L turned once: a box of 2 columns and 3 rows
C23_TrimmedTurnedL ==
    /\ Calls = 2
    /\ Input = RotateTimes(L, 1)
    /\ Output.Width = 2
    /\ Output.Height = 3
    /\ Output.Mask # Input.Mask

\* the lowest board row an occupied cell of piece p is in
LowestRow(p) == MaxOf({MaskY(p, i) : i \in Occupied(p)})

\* C24: in every state the descent from the falling piece ends within
\* boardHeight steps without a read outside the board, no lower than with the
\* lowest occupied cell of the piece in the row above the floor; and from any
\* row on, canMoveDown is false at the latest with the lowest occupied cell in
\* that row.
C24_DescentEnds ==
    LET e == ghostPiece(Game)
    IN  /\ ~e.panic
        /\ e.rows <= boardHeight
        /\ LowestRow(e.piece) <= boardHeight - 1
        /\ earlyCommitScore(Game) <= 2 * boardHeight
        /\ \A y \in 0 .. boardHeight - 1 :
                LET p == [FallingPiece EXCEPT !.Y = y]
                IN  LowestRow(p) = boardHeight - 1 => canMoveDown(Game, p) = Hit

\* a piece went down to the floor and was locked there, and the piece after it
\* has rows to go down
C24_LockedOnFloor ==
    /\ Locked = 1
    /\ \E x \in PlayableX : Cells[(boardHeight - 1) * boardWidthWithWalls + x] \in Tints
    /\ ghostPiece(Game).rows >= 1

\* C25, as the specification states it: a commit whose board has several full
\* playable rows adds their number to LinesCleared, leaves every row that was
\* not full with its contents, below it as many rows fewer as were full below
\* it, and leaves no playable row full.
C25_EveryFullRowRemoved ==
    [][Locked' = Locked + 1
        => LET B == Committed
               full == {y \in 0 .. boardHeight - 1 : RowFull(B, y)}
           IN  Cardinality(full) >= 2
               => /\ LinesCleared' = LinesCleared + Cardinality(full)
                  /\ \A y \in (0 .. boardHeight - 1) \ full : \A x \in PlayableX :
                        Cells'[(y + Cardinality({f \in full : f > y})) * boardWidthWithWalls + x]
                            = B[y * boardWidthWithWalls + x]
                  /\ \A y \in 0 .. boardHeight - 1 : ~RowFull(Cells', y)]_vars

\* the one key a tick of keys k serves when it is not a tick of play
Served(k) ==
    IF k.r THEN "r"
    ELSE IF k.i THEN "i"
    ELSE IF k.space THEN "space"
    ELSE IF k.c /\ ~DidHoldPiece THEN "c"
    ELSE "play"

\* C26: a tick locks at most one piece, and of the keys r, i, space and c (the
\* hold being permitted) it serves the first that is pressed and nothing else:
\* the tick ends as with that key alone, a reset leaves the new game, a debug
\* toggle changes ShowDebug only, a hard drop locks the piece in its column and
\* orientation and a hold locks nothing, and neither touches TicksSinceFall,
\* TicksSinceMove or FastFalling.
C26_OneKeyServed ==
    [][\A k \in Keys : \A d \in (IF k.r THEN FourDraws ELSE OneDraw(k)) :
        Tick(k, d)
        => /\ Locked' \in {Locked, Locked + 1}
           /\ Served(k) # "play"
                => /\ Becomes(Update(Game, Press({Served(k)}), d))
                   /\ Served(k) \in {"space", "c"}
                        => /\ TicksSinceFall' = TicksSinceFall
                           /\ TicksSinceMove' = TicksSinceMove
                           /\ FastFalling' = FastFalling
           /\ Served(k) = "r" => Locked' = Locked /\ Score' = 0 /\ TicksSinceMove' = 0
           /\ Served(k) = "i"
                => /\ ShowDebug' = ~ShowDebug
                   /\ UNCHANGED <<Cells, Queue, DidHoldPiece, HoldPiece, FallingPiece,
                                  FastFalling, TicksSinceFall, TicksSinceMove,
                                  LastChanceTicks, Level, Score, LinesCleared, Locked>>
           /\ Served(k) = "space"
                => /\ Locked' = Locked + 1
                   /\ Cells' = scanLines(lockCells(Cells, ghostPiece(Game).piece), 0, 0).cells
           /\ Served(k) = "c"
                => /\ Locked' = Locked
                   /\ LastChanceTicks' = LastChanceTicks
                   /\ UNCHANGED <<Cells, Score>>
                   /\ FallingPiece'.Y = 0
                   /\ FallingPiece'.X = SpawnX(FallingPiece')]_vars

\* the debug toggle, a hold and a hard drop were each served by a tick
C26_EachKeyServed ==
    /\ ShowDebug
    /\ Locked = 1
    /\ HoldPiece # <<>>

\* C27: a tick that locks no piece, the reset key not pressed (a move, a
\* rotation, a gravity step, a tick of the grace period, a hold, a debug
\* toggle), leaves every board cell, LinesCleared and Level unchanged, and
\* leaves Score unchanged but for the one point of a gravity step under soft
\* drop.
C27_BoardOnlyByCommit ==
    [][Locked' = Locked
        => /\ Cells' = Cells
           /\ LinesCleared' = LinesCleared
           /\ Level' = Level
           /\ \/ Score' = Score
              \/ /\ Score' = Score + 1
                 /\ FallingPiece'.Y = FallingPiece.Y + 1
                 /\ FastFalling']_vars

\* on a board with locked cells the falling piece was rotated and taken down
\* a row under soft drop, and the debug overlay was toggled
C27_PlayedBesideStack ==
    /\ Locked = 0
    /\ FallingPiece.Rotation # 0
    /\ FallingPiece.Y >= 1
    /\ FastFalling
    /\ ShowDebug
    /\ \E c \in 0 .. cellCount - 1 : Cells[c] \in Tints

\* C28, as the specification states it: in the time-based variant
\* FastFallingPaused becomes true only in a tick in which gravity locks the
\* piece with the down key pressed; it is false after a tick in which the down
\* key was released; and a tick in which gravity locks the piece with the down
\* key not pressed leaves it false.
C28_PausedOnlyAfterFastDrop ==
    [][\A k \in TimedKeys : \A e \in Times : \A n \in TimedDraws :
        TimedTick(k, e, n)
        => /\ (FastFallingPaused' /\ ~FastFallingPaused)
                => (Locked' = Locked + 1 /\ ~k.space /\ k.down)
           /\ (DownHeld /\ ~k.down) => ~FastFallingPaused'
           /\ (Locked' = Locked + 1 /\ ~k.space /\ ~k.down /\ ~FastFallingPaused)
                => ~FastFallingPaused']_vars

\* C29: LastChanceTicks is always within 0 .. 120.  A tick that locks a piece
\* leaves it 0; a tick that ends with the piece unable to move down, and that
\* neither locked, held nor lowered a piece (fall ran on a piece that could
\* not move down and did not lock it), adds one to it and starts below 120;
\* no other tick changes it, whatever the player moves, rotates or holds.  So
\* LastChanceTicks counts the ticks in which fall ran on a resting piece since
\* the last lock, and the 121st such tick at the latest locks the piece.
C29_GraceCeiling ==
    /\ [](LastChanceTicks \in 0 .. graceTotalTicks)
    /\ [][LET held == DidHoldPiece' /\ ~DidHoldPiece
              rested == /\ Locked' = Locked
                        /\ ~held
                        /\ FallingPiece'.Y = FallingPiece.Y
                        /\ canMoveDown(Game', FallingPiece') # Free
          IN  /\ Locked' = Locked + 1 => LastChanceTicks' = 0
              /\ rested => /\ LastChanceTicks' = LastChanceTicks + 1
                           /\ LastChanceTicks < graceTotalTicks
              /\ (Locked' = Locked /\ ~rested) => LastChanceTicks' = LastChanceTicks]_vars

\* C29 witness: the player has moved the resting piece again and again, one
\* piece is in the hold slot, and the grace period has reached its ceiling
\* with the move timer not run out
C29_CeilingReached ==
    /\ LastChanceTicks = graceTotalTicks
    /\ TicksSinceMove < graceMoveTicks - 1
    /\ DidHoldPiece
    /\ Locked = 0
    /\ canMoveDown(Game, FallingPiece) # Free

\* C30, as the specification states it: a tick that locks the falling piece
\* by the grace rule (a lock without the hard-drop key) comes only when fall
\* has run on that piece at least 30 times, that tick counted, while the piece
\* could not move down, counted from the tick it became the falling piece.
\* Thirty consecutive such ticks without a move and 120 such ticks in total
\* both need it.
C30_GraceFromOwnTimers ==
    [][Locked' = Locked + 1
        => \A k \in LastKeys : \A d \in OneDraw(k) :
            (~k.space /\ LastTick(k, d)) => Rested + 1 >= graceMoveTicks]_vars

\* C31, as the specification states it: in every reachable state no occupied
\* cell of the falling piece lies on an occupied cell of the board, right
\* after a spawn and after a hold swap included.
C31_PieceOnFreeCells ==
    \A i \in Occupied(FallingPiece) :
        InBoard(CellIndex(FallingPiece, i, 0, 0))
            => Cells[CellIndex(FallingPiece, i, 0, 0)] = Nil

\* C32, as the specification states it: one call of clearLines counts at
\* most 4 lines, and a call that counts lines adds a positive line score.
C32_AtMostFourLines ==
    /\ Output.lines <= 4
    /\ Output.lines > 0 => Output.points > 0

\* C33: on every sequence of ticks that goes on for ever (the game loop
\* keeps calling Update), without the reset and debug keys, the falling piece
\* is locked in the end, whatever the player moves, rotates, soft-drops or
\* holds; the program ends only by a panic.  The exploration stops at
\* MaxLocked locks.
C33_EveryPieceLocked == []<><<NextLive>>_vars => <>(Locked = MaxLocked \/ Panicked)

\* C33 witness: a piece was held, no row of soft drop or hard drop was
\* scored, and the piece that took its place is locked while the move timer
\* had not run out: the player kept it unlocked into the last ticks of the
\* grace period
C33_LockedAfterDelay ==
    /\ Locked = MaxLocked
    /\ HoldPiece # <<>>
    /\ DidHoldPiece = FALSE
    /\ Score = 0
    /\ TicksSinceMove < graceMoveTicks - 1
    /\ TicksSinceFall = 0

\* C34: whenever DidHoldPiece is true the hold slot holds a piece; the piece
\* in the hold slot is one of the seven pieces of the catalog, in one of its
\* orientations; and a tick empties a filled hold slot only if it is a reset
\* (the game it leaves is a new game).
C34_HoldSlotStaysFilled ==
    /\ [](/\ DidHoldPiece => HoldPiece # <<>>
          /\ HoldPiece # <<>>
                => /\ Len(HoldPiece) = 1
                   /\ \E n \in DOMAIN allPieces : \E r \in 0 .. 3 :
                        /\ HoldPiece[1].Tint = allPieces[n].Tint
                        /\ HoldPiece[1].Mask = RotateTimes(allPieces[n], r).Mask)
    /\ [][(HoldPiece # <<>> /\ HoldPiece' = <<>>)
            => \E d \in FourDraws : Game' = Reset(Game, d)]_vars

\* C34 witness: a piece was held and another piece has been locked since:
\* DidHoldPiece is false again and the hold slot still holds the piece
C34_HeldAcrossLock ==
    /\ Locked = 1
    /\ ~DidHoldPiece
    /\ HoldPiece # <<>>
    /\ HoldPiece[1].Tint \in {allPieces[n].Tint : n \in DOMAIN allPieces}

====
